---- MODULE Spec2Model ----
(***************************************************************************)
(* Blueprint execution engine of @trestleinc/crane: the ordering of the    *)
(* tile graph (sortTiles), template interpolation (interpolate), the tile  *)
(* dispatcher (executeTile) and the sequence runner (executeInternal,      *)
(* runBlueprintDirect, createExecutor.run, crane.execute).                 *)
(*                                                                         *)
(* JavaScript values are tagged records ([t |-> "str", s |-> ...]); a      *)
(* string is a sequence of one-character strings, so that the regular      *)
(* expression of interpolate is modelled character by character; texts     *)
(* the code builds with template literals are sequences whose literal      *)
(* parts are kept as one element each.                                     *)
(***************************************************************************)
EXTENDS Integers, Sequences, FiniteSets, TLC

VARIABLES
    tiles,        \* blueprint.tiles, the input array of the run
    variables,    \* the caller's variables (options.variables)
    hasResolver,  \* whether a credential resolver is configured
    hasProgress,  \* whether options.onProgress is given
    hasArtifact,  \* whether options.onArtifact is given
    variant,      \* which runner: "internal" (builder.ts) or "factory" (adapter factory)
    pc,           \* position of the run
    sortedTiles,  \* const sortedTiles = sortTiles(blueprint.tiles)
    idx,          \* number of loop iterations entered (index into sortedTiles)
    tileResults,  \* const tileResults: TileResult[]
    outputs,      \* const outputs: Record<string, unknown>
    dispatches,   \* log of executeTile calls: the tile id and the variables bag handed over
    raised,       \* log of the exceptions raised while a tile was executed
    calls,        \* log of provider / resolver calls: [tile, m, arg]
    progress,     \* log of onProgress notifications: <<tileId, status>>
    artifacts,    \* log of onArtifact calls
    closeCalls,   \* number of adapter.close() invocations
    adapterMade,  \* whether the adapter instance of this run exists
    runResult,    \* the ExecutionResult returned, or NoResult
    escaped,      \* the exception that left the runner, or NoExc
    sorted,       \* sortTiles: const sorted: T[]
    visited,      \* sortTiles: const visited = new Set<string>()
    current,      \* sortTiles: let current (an index into tiles, 0 for undefined)
    templateParts, \* interpolate: the pieces the template is put together from
    interpolated, \* interpolate: the string returned, or NotCalled
    config,       \* crane.execute: the execution configuration of the crane instance
    store,        \* the component's tables: the blueprint and the execution record
    outbound,     \* crane.execute: log of hand-offs (fetch, runner, workflow, internal)
    env,          \* process.env: the model API keys, by provider
    runs,         \* runBlueprintDirect: the frames of the runs in progress
    compiled,     \* compile: the CompiledBlueprint returned, or NotCalled
    generated,    \* the frame of a run of the generated function, or NotCalled
    drafts        \* the blueprint builder: the drafts made so far

\* the locals of sortTiles and the argument and result of interpolate
services == <<config, store, outbound, env, runs, compiled, generated, drafts>>

locals == <<sorted, visited, current, templateParts, interpolated, services>>

vars == <<tiles, variables, hasResolver, hasProgress, hasArtifact, variant, pc,
          sortedTiles, idx, tileResults, outputs, dispatches, raised, calls,
          progress, artifacts, closeCalls, adapterMade, runResult, escaped, locals>>

-----------------------------------------------------------------------------
(* JavaScript values *)

UNDEF == [t |-> "undef"]
JSNULL == [t |-> "null"]
Str(s) == [t |-> "str", s |-> s]
Num(n) == [t |-> "num", n |-> n]
Bool(b) == [t |-> "bool", b |-> b]

IsStr(v) == v.t = "str"
Nullish(v) == v.t \in {"undef", "null"}

\* a ?? b
Coalesce(v, d) == IF Nullish(v) THEN d ELSE v

\* if (v) ...
Truthy(v) ==
    CASE v.t = "str" -> v.s # <<>>
      [] v.t = "num" -> v.n # 0
      [] v.t = "bool" -> v.b
      [] v.t \in {"undef", "null"} -> FALSE
      [] OTHER -> TRUE

Digit(n) == <<"0", "1", "2", "3", "4", "5", "6", "7", "8", "9">>[n + 1]

RECURSIVE Digits(_)
Digits(n) == IF n < 10 THEN <<Digit(n)>> ELSE Digits(n \div 10) \o <<Digit(n % 10)>>

\* String(value)
JsString(v) ==
    CASE v.t = "str" -> v.s
      [] v.t = "num" -> Digits(v.n)
      [] v.t = "bool" -> IF v.b THEN <<"t", "r", "u", "e">> ELSE <<"f", "a", "l", "s", "e">>
      [] v.t = "null" -> <<"n", "u", "l", "l">>
      [] v.t = "undef" -> <<"u", "n", "d", "e", "f", "i", "n", "e", "d">>
      [] v.t = "function" -> <<"function ">> \o v.name \o <<"() { [native code] }">>
      [] OTHER -> <<"[object Object]">>

\* Members every object literal inherits from Object.prototype (some of
\* them): a property read finds them when the object has no own property of
\* that name.
sToString == <<"t", "o", "S", "t", "r", "i", "n", "g">>
sValueOf == <<"v", "a", "l", "u", "e", "O", "f">>
sConstructor == <<"c", "o", "n", "s", "t", "r", "u", "c", "t", "o", "r">>
ObjectPrototype ==
    sToString :> [t |-> "function", name |-> sToString]
    @@ sValueOf :> [t |-> "function", name |-> sValueOf]
    @@ sConstructor :> [t |-> "function", name |-> <<"O", "b", "j", "e", "c", "t">>]

\* variables[key]
VarGet(bag, key) ==
    IF key \in DOMAIN bag THEN bag[key]
    ELSE IF key \in DOMAIN ObjectPrototype THEN ObjectPrototype[key]
    ELSE UNDEF

\* { ...a, ...b }
Spread(a, b) == [k \in DOMAIN a \cup DOMAIN b |-> IF k \in DOMAIN b THEN b[k] ELSE a[k]]

EmptyBag == [k \in {} |-> UNDEF]

NotCalled == [t |-> "none"]

\* the locals of sortTiles and interpolate while neither is running
NoServices ==
    /\ config = UNDEF
    /\ store = UNDEF
    /\ outbound = <<>>
    /\ env = UNDEF
    /\ runs = <<>>
    /\ compiled = NotCalled
    /\ generated = NotCalled
    /\ drafts = <<>>

NoWorkings ==
    /\ sorted = <<>>
    /\ visited = {}
    /\ current = 0
    /\ templateParts = <<>>
    /\ interpolated = NotCalled

NoLocals == NoWorkings /\ NoServices

-----------------------------------------------------------------------------
(* interpolate: template.replace(/\{\{(\w+)\}\}/g, ...) *)

WordChars == {"a", "b", "c", "d", "e", "f", "g", "h", "i", "j", "k", "l", "m", "n", "o", "p",
              "q", "r", "s", "t", "u", "v", "w", "x", "y", "z", "A", "B", "C", "D", "E", "F",
              "G", "H", "I", "J", "K", "L", "M", "N", "O", "P", "Q", "R", "S", "T", "U", "V",
              "W", "X", "Y", "Z", "0", "1", "2", "3", "4", "5", "6", "7", "8", "9", "_"}

\* the end of the longest run of \w characters that starts at position i (i - 1 if none)
RECURSIVE WordEnd(_, _)
WordEnd(s, i) == IF i <= Len(s) /\ s[i] \in WordChars THEN WordEnd(s, i + 1) ELSE i - 1

\* a pattern that takes a single opening brace for the start of a placeholder
MatchAtSingleBrace(s, i) == s[i] = "{"

\* whether /\{\{(\w+)\}\}/ matches at position i of s
MatchAt(s, i) ==
    /\ i + 1 <= Len(s) /\ s[i] = "{" /\ s[i + 1] = "{"
    /\ LET e == WordEnd(s, i + 2)
       IN  /\ e >= i + 2
           /\ e + 2 <= Len(s) /\ s[e + 1] = "}" /\ s[e + 2] = "}"

\* the replacement callback: value !== undefined ? String(value) : `{{${key}}}`
ReplaceKey(key, bag) ==
    LET value == VarGet(bag, key)
    IN  IF value # UNDEF THEN JsString(value) ELSE <<"{", "{">> \o key \o <<"}", "}">>

RECURSIVE InterpolateFrom(_, _, _)
InterpolateFrom(s, i, bag) ==
    IF i > Len(s) THEN <<>>
    ELSE IF MatchAt(s, i)
         THEN LET e == WordEnd(s, i + 2)
              IN  ReplaceKey(SubSeq(s, i + 2, e), bag) \o InterpolateFrom(s, e + 3, bag)
         ELSE <<s[i]>> \o InterpolateFrom(s, i + 1, bag)

interpolate(template, bag) == InterpolateFrom(template, 1, bag)

-----------------------------------------------------------------------------
(* sortTiles *)

NULL == "<null>"

Tile(id, type, parameters, input, output) ==
    [id |-> id, type |-> type, parameters |-> parameters,
     connections |-> [input |-> input, output |-> output]]

\* a start tile taken to be the first element of the array
FindEntryFirst(ts, i) == IF Len(ts) = 0 THEN 0 ELSE 1

\* a start tile taken to be the last tile of the array with a null predecessor
FindEntryLast(ts, i) ==
    LET nulls == {k \in 1..Len(ts) : ts[k].connections.input = NULL}
    IN  IF nulls = {} THEN 0 ELSE CHOOSE k \in nulls : \A j \in nulls : j <= k

\* tiles.find(...) as the index of the first match, 0 for undefined
RECURSIVE FindEntryFrom(_, _)
FindEntryFrom(ts, i) ==
    IF i > Len(ts) THEN 0
    ELSE IF ts[i].connections.input = NULL THEN i ELSE FindEntryFrom(ts, i + 1)

RECURSIVE FindByIdFrom(_, _, _)
FindByIdFrom(ts, id, i) ==
    IF i > Len(ts) THEN 0
    ELSE IF ts[i].id = id THEN i ELSE FindByIdFrom(ts, id, i + 1)

\* the while loop of sortTiles; cur = 0 stands for undefined
RECURSIVE SortWalk(_, _, _, _)
SortWalk(ts, cur, out, vis) ==
    IF cur = 0 \/ ts[cur].id \in vis THEN out
    ELSE LET nextId == ts[cur].connections.output
             out2 == Append(out, ts[cur])
             vis2 == vis \cup {ts[cur].id}
         IN  IF nextId # NULL
             THEN SortWalk(ts, FindByIdFrom(ts, nextId, 1), out2, vis2)
             ELSE out2

\* sortTiles without the fallback for a list that has no start tile
sortTilesNoFallback(ts) ==
    LET startTile == FindEntryFrom(ts, 1)
    IN  IF startTile = 0 THEN <<>> ELSE SortWalk(ts, startTile, <<>>, {})

\* an ordering that puts the tiles the walk did not reach after the chain
sortTilesKeepRest(ts) ==
    LET startTile == FindEntryFrom(ts, 1)
        chain == IF startTile = 0 THEN ts ELSE SortWalk(ts, startTile, <<>>, {})
        onChain(t) == \E k \in 1..Len(chain) : chain[k].id = t.id
    IN  chain \o SelectSeq(ts, LAMBDA t : ~onChain(t))

sortTiles(ts) ==
    LET startTile == FindEntryFrom(ts, 1)
    IN  IF startTile = 0 THEN ts ELSE SortWalk(ts, startTile, <<>>, {})

-----------------------------------------------------------------------------
(* The action provider (Adapter) and the credential resolver: what a call  *)
(* may answer.  A thrown value is either an Error instance with a message  *)
(* or some other value.                                                    *)

NoExc == [isError |-> FALSE, message |-> UNDEF, none |-> TRUE]
ErrorOf(msg) == [isError |-> TRUE, message |-> Str(msg), none |-> FALSE]
ThrownValue(v) == [isError |-> FALSE, message |-> v, none |-> FALSE]
TypeError == ErrorOf(<<"TypeError">>)

ResolverThrows == {ErrorOf(<<"vault locked">>)}

ActResult(success, message) == [t |-> "act", success |-> success, message |-> message]

Bytes(id, size) == [t |-> "bytes", id |-> id, size |-> size]

Url(host) == Str(<<"https://", host, "/login">>)

\* An adapter is given by what its methods may answer.  FullAdapter is used
\* where one tile is dispatched, RunAdapter where whole blueprints are run.
FullAdapter ==
    [actReturns |-> {ActResult(TRUE, UNDEF), ActResult(FALSE, Str(<<"not found">>)),
                     ActResult(FALSE, UNDEF)},
     throws |-> {ErrorOf(<<"provider crashed">>), ThrownValue(Str(<<"boom">>))},
     payloads |-> {Str(<<"A", "B", "C", "1", "2", "3">>), Num(7)},
     shots |-> {Bytes(1, 10), Bytes(2, 20)},
     urls |-> {Url("x.test"), Str(<<>>)}]

RunAdapter ==
    [actReturns |-> {ActResult(TRUE, UNDEF), ActResult(FALSE, Str(<<"not found">>))},
     throws |-> {ErrorOf(<<"provider crashed">>)},
     payloads |-> {Str(<<"A", "B", "C", "1", "2", "3">>), Num(7)},
     shots |-> {Bytes(1, 10), Bytes(2, 20)},
     urls |-> {Url("x.test")}]

Cred == [t |-> "cred", username |-> <<"ann">>, password |-> <<"s3cret">>,
         fields |-> (<<"p", "i", "n">> :> <<"1", "2", "3", "4">>)]
ResolverReturns == {Cred, JSNULL}

\* new URL(currentUrl).hostname: the host, or none when the constructor throws
ValidUrl(u) == IsStr(u) /\ Len(u.s) >= 2 /\ u.s[1] = "https://"
Hostname(u) == u.s[2]

\* one call on record: the method, its argument and what it answered (Threw
\* when the call raised an exception)
Threw == [t |-> "threw"]
Call(m, arg, ret) == [m |-> m, arg |-> arg, ret |-> ret]

-----------------------------------------------------------------------------
(* executeTile *)

NoTileResult == [tileId |-> NULL, status |-> "none", result |-> UNDEF, error |-> UNDEF]
TileResult(id, status, result, error) ==
    [tileId |-> id, status |-> status, result |-> result, error |-> error]

\* the ways the body of the try block can end: a return or a throw, after some calls
\* (exc is the exception raised, if any; it stays on record when it is caught)
Ret(res, cs) == [k |-> "return", result |-> res, exc |-> NoExc, calls |-> cs]
Thr(exc, cs) == [k |-> "throw", result |-> NoTileResult, exc |-> exc, calls |-> cs]

P(tile, name) ==
    IF name \in DOMAIN tile.parameters THEN tile.parameters[name] ELSE UNDEF

\* status: result.success ? 'completed' : 'failed', error: result.success ? undefined : result.message
FromActIgnoresSuccess(tile, r) == TileResult(tile.id, "failed", r, r.message)

FromAct(tile, r) ==
    TileResult(tile.id, IF r.success THEN "completed" ELSE "failed", r,
               IF r.success THEN UNDEF ELSE r.message)

\* `await adapter.act(text)` followed by the return built from its result
ActThenReturn(tile, adapter, text, before) ==
    {Ret(FromAct(tile, r), Append(before, Call("act", text, r))) : r \in adapter.actReturns}
        \cup {Thr(e, Append(before, Call("act", text, Threw))) : e \in adapter.throws}

TypeText(value, instruction) == <<"Type \"">> \o value \o <<"\" into ">> \o instruction

caseNAVIGATE(tile, adapter, bag) ==
    IF ~IsStr(P(tile, "url")) THEN {Thr(TypeError, <<>>)}
    ELSE LET url == interpolate(P(tile, "url").s, bag)
             opts == [waitUntil |-> Coalesce(P(tile, "waitUntil"), Str(<<"load">>)),
                      timeout |-> Coalesce(P(tile, "timeout"), Num(30000))]
             cs(ret) == <<Call("navigate", [url |-> url, opts |-> opts], ret)>>
         IN  {Ret(TileResult(tile.id, "completed", UNDEF, UNDEF), cs(UNDEF))}
                 \cup {Thr(e, cs(Threw)) : e \in adapter.throws}

caseCLICK(tile, adapter, bag) ==
    IF ~IsStr(P(tile, "instruction")) THEN {Thr(TypeError, <<>>)}
    ELSE LET instruction == interpolate(P(tile, "instruction").s, bag)
         IN  ActThenReturn(tile, adapter, <<"Click on ">> \o instruction, <<>>)

\* cred.username / cred.password / cred.fields?.[field] ?? ''
CredField(cred, field) ==
    IF field = <<"u", "s", "e", "r", "n", "a", "m", "e">> THEN cred.username
    ELSE IF field = <<"p", "a", "s", "s", "w", "o", "r", "d">> THEN cred.password
    ELSE IF field \in DOMAIN cred.fields THEN cred.fields[field] ELSE <<>>

\* the credentialField branch of TYPE (builder.ts lines 139-151), then the act
TypeFromCredential(tile, adapter, instruction) ==
    LET c1(ret) == <<Call("currentUrl", <<>>, ret)>>
        afterUrl(u) ==
            IF ~ValidUrl(u) THEN {Thr(TypeError, c1(u))}
            ELSE LET domain == Hostname(u)
                     c2(ret) == Append(c1(u), Call("credentials", <<domain>>, ret))
                     afterCred(cred) ==
                         IF cred = JSNULL
                         THEN {Ret(TileResult(tile.id, "failed", UNDEF,
                                      Str(<<"No credentials found for domain: ", domain>>)), c2(cred))}
                         ELSE ActThenReturn(tile, adapter,
                                  TypeText(CredField(cred, JsString(P(tile, "credentialField"))),
                                           instruction), c2(cred))
                 IN  UNION {afterCred(cred) : cred \in ResolverReturns}
                         \cup {Thr(e, c2(Threw)) : e \in ResolverThrows}
    IN  UNION {afterUrl(u) : u \in adapter.urls} \cup {Thr(e, c1(Threw)) : e \in adapter.throws}

caseTYPE(tile, adapter, bag, credentials) ==
    IF ~IsStr(P(tile, "instruction")) THEN {Thr(TypeError, <<>>)}
    ELSE LET instruction == interpolate(P(tile, "instruction").s, bag)
         IN  IF Truthy(P(tile, "value"))
             THEN IF ~IsStr(P(tile, "value")) THEN {Thr(TypeError, <<>>)}
                  ELSE ActThenReturn(tile, adapter,
                           TypeText(interpolate(P(tile, "value").s, bag), instruction), <<>>)
             ELSE IF Truthy(P(tile, "variable"))
             THEN ActThenReturn(tile, adapter,
                      TypeText(JsString(Coalesce(VarGet(bag, JsString(P(tile, "variable"))),
                                                 Str(<<>>))), instruction), <<>>)
             ELSE IF Truthy(P(tile, "credentialField")) /\ credentials
             THEN TypeFromCredential(tile, adapter, instruction)
             ELSE ActThenReturn(tile, adapter, TypeText(<<>>, instruction), <<>>)

\* a login in which no sub-action is ever taken for unsuccessful
SubActionFailedNever(r) == FALSE

\* if (!usernameResult.success) / if (!passwordResult.success)
SubActionFailed(r) == ~r.success

\* AUTH once a resolver is known to be there (builder.ts lines 176-217)
AuthWithResolver(tile, adapter) ==
    LET c1(ret) == <<Call("currentUrl", <<>>, ret)>>
        failed(msg, cs) == Ret(TileResult(tile.id, "failed", UNDEF, msg), cs)
        prefixed(prefix, r) == Str(<<prefix>> \o JsString(r.message))
        afterCred(cred, c2) ==
            LET c3(ret) == Append(c2, Call("act",
                          <<"Type \"">> \o cred.username \o <<"\" into the username or email field">>, ret))
                c4(r1, ret) == Append(c3(r1), Call("act",
                          <<"Type \"">> \o cred.password \o <<"\" into the password field">>, ret))
                afterPassword(r1, r2) ==
                    IF SubActionFailed(r2)
                    THEN {failed(prefixed("Failed to enter password: ", r2), c4(r1, r2))}
                    ELSE ActThenReturn(tile, adapter, <<"Click the login or sign in button">>,
                                       c4(r1, r2))
                afterUsername(r1) ==
                    IF SubActionFailed(r1)
                    THEN {failed(prefixed("Failed to enter username: ", r1), c3(r1))}
                    ELSE UNION {afterPassword(r1, r2) : r2 \in adapter.actReturns}
                             \cup {Thr(e, c4(r1, Threw)) : e \in adapter.throws}
            IN  UNION {afterUsername(r1) : r1 \in adapter.actReturns}
                    \cup {Thr(e, c3(Threw)) : e \in adapter.throws}
        afterUrl(u) ==
            IF ~ValidUrl(u) THEN {Thr(TypeError, c1(u))}
            ELSE LET domain == Hostname(u)
                     c2(ret) == Append(c1(u), Call("credentials", <<domain>>, ret))
                 IN  UNION {IF cred = JSNULL
                            THEN {failed(Str(<<"No credentials found for domain: ", domain>>), c2(cred))}
                            ELSE afterCred(cred, c2(cred)) : cred \in ResolverReturns}
                         \cup {Thr(e, c2(Threw)) : e \in ResolverThrows}
    IN  UNION {afterUrl(u) : u \in adapter.urls} \cup {Thr(e, c1(Threw)) : e \in adapter.throws}

\* AUTH that goes on without asking whether a resolver was given
caseAUTHUnchecked(tile, adapter, credentials) == AuthWithResolver(tile, adapter)

caseAUTH(tile, adapter, credentials) ==
    IF ~credentials
    THEN {Ret(TileResult(tile.id, "failed", UNDEF,
                  Str(<<"No credential resolver provided for AUTH tile">>)), <<>>)}
    ELSE AuthWithResolver(tile, adapter)

caseEXTRACT(tile, adapter, bag) ==
    IF ~IsStr(P(tile, "instruction")) THEN {Thr(TypeError, <<>>)}
    ELSE LET instruction == interpolate(P(tile, "instruction").s, bag)
             cs(ret) == <<Call("extract", [instruction |-> instruction, schema |-> P(tile, "schema")],
                               ret)>>
         IN  {Ret(TileResult(tile.id, "completed", extracted, UNDEF), cs(extracted))
                 : extracted \in adapter.payloads}
                 \cup {Thr(e, cs(Threw)) : e \in adapter.throws}

caseSCREENSHOT(tile, adapter) ==
    LET cs(ret) == <<Call("screenshot", [fullPage |-> Coalesce(P(tile, "fullPage"), Bool(FALSE))],
                          ret)>>
    IN  {Ret(TileResult(tile.id, "completed", [t |-> "screenshot", size |-> data.size], UNDEF),
             cs(data)) : data \in adapter.shots}
            \cup {Thr(e, cs(Threw)) : e \in adapter.throws}

caseWAIT(tile) ==
    LET ms == Coalesce(P(tile, "ms"), Num(1000))
    IN  {Ret(TileResult(tile.id, "completed", UNDEF, UNDEF), <<Call("setTimeout", ms, UNDEF)>>)}

caseSELECT(tile, adapter, bag) ==
    IF ~IsStr(P(tile, "instruction")) \/ ~IsStr(P(tile, "value")) THEN {Thr(TypeError, <<>>)}
    ELSE LET instruction == interpolate(P(tile, "instruction").s, bag)
             value == interpolate(P(tile, "value").s, bag)
         IN  ActThenReturn(tile, adapter,
                 <<"Select \"">> \o value \o <<"\" from ">> \o instruction, <<>>)

\* the value of one FORM field (builder.ts lines 275-279)
FieldValue(field, bag) ==
    IF Truthy(field.value) THEN interpolate(field.value.s, bag)
    ELSE IF Truthy(field.variable)
         THEN JsString(Coalesce(VarGet(bag, JsString(field.variable)), Str(<<>>)))
         ELSE <<>>

\* a field loop that never takes a field's action for unsuccessful
FieldFailedNever(r) == FALSE

\* if (!result.success) inside the field loop
FieldFailed(r) == ~r.success

\* for (const field of fields) { ... } from field i on, after the calls cs
RECURSIVE FormFrom(_, _, _, _, _, _)
FormFrom(tile, adapter, fields, i, bag, cs) ==
    IF i > Len(fields) THEN {Ret(TileResult(tile.id, "completed", UNDEF, UNDEF), cs)}
    ELSE IF ~IsStr(fields[i].instruction) \/ (Truthy(fields[i].value) /\ ~IsStr(fields[i].value))
         THEN {Thr(TypeError, cs)}
    ELSE LET instruction == interpolate(fields[i].instruction.s, bag)
             c2(ret) == Append(cs, Call("act", TypeText(FieldValue(fields[i], bag), instruction), ret))
             after(r) ==
                 IF FieldFailed(r)
                 THEN {Ret(TileResult(tile.id, "failed", UNDEF,
                               Str(<<"Failed to fill field \"">> \o instruction \o <<"\": ">>
                                       \o JsString(r.message))), c2(r))}
                 ELSE FormFrom(tile, adapter, fields, i + 1, bag, c2(r))
         IN  UNION {after(r) : r \in adapter.actReturns}
                 \cup {Thr(e, c2(Threw)) : e \in adapter.throws}

caseFORM(tile, adapter, bag) ==
    IF P(tile, "fields").t # "list" THEN {Thr(TypeError, <<>>)}
    ELSE FormFrom(tile, adapter, P(tile, "fields").items, 1, bag, <<>>)

caseDefaultCompletes(tile) ==
    {Ret(TileResult(tile.id, "completed", UNDEF, UNDEF), <<>>)}

caseDefault(tile) ==
    {Ret(TileResult(tile.id, "failed", UNDEF, Str(<<"Unknown tile type: ", tile.type>>)), <<>>)}

\* switch (tile.type) { ... }
tileSwitch(tile, adapter, bag, credentials) ==
    CASE tile.type = "NAVIGATE" -> caseNAVIGATE(tile, adapter, bag)
      [] tile.type = "CLICK" -> caseCLICK(tile, adapter, bag)
      [] tile.type = "TYPE" -> caseTYPE(tile, adapter, bag, credentials)
      [] tile.type = "AUTH" -> caseAUTH(tile, adapter, credentials)
      [] tile.type = "EXTRACT" -> caseEXTRACT(tile, adapter, bag)
      [] tile.type = "SCREENSHOT" -> caseSCREENSHOT(tile, adapter)
      [] tile.type = "WAIT" -> caseWAIT(tile)
      [] tile.type = "SELECT" -> caseSELECT(tile, adapter, bag)
      [] tile.type = "FORM" -> caseFORM(tile, adapter, bag)
      [] OTHER -> caseDefault(tile)

\* error instanceof Error ? error.message : 'Unknown error'
CatchMessage(exc) == IF exc.isError THEN exc.message ELSE Str(<<"Unknown error">>)

\* executeTile without its catch clause
tileCatchRethrow(tile, o) == o

\* catch (error) { return { tileId, status: 'failed', error: ... } }
tileCatch(tile, o) ==
    IF o.k = "throw"
    THEN [k |-> "return", result |-> TileResult(tile.id, "failed", UNDEF, CatchMessage(o.exc)),
          exc |-> o.exc, calls |-> o.calls]
    ELSE o

\* the set of ways executeTile(tile, adapter, variables, credentials) can end
executeTile(tile, adapter, bag, credentials) ==
    {tileCatch(tile, o) : o \in tileSwitch(tile, adapter, bag, credentials)}

-----------------------------------------------------------------------------
(* Bounded inputs *)

MaxTiles == 3        \* longest blueprint of a run
MaxSortLen == 3      \* longest tile list handed to sortTiles alone

TileIds == <<"t1", "t2", "t3", "t4", "t5", "t6">>

sV == <<"v">>
sW == <<"w">>
Placeholder(name) == <<"{", "{">> \o name \o <<"}", "}">>

\* the tile shapes of the blueprints that are run
RunShapes == <<
    [type |-> "NAVIGATE", parameters |-> [url |-> Str(Placeholder(sW))]],
    [type |-> "EXTRACT", parameters |-> [instruction |-> Str(<<"c", "o", "d", "e">>),
                                         outputVariable |-> Str(sV)]],
    [type |-> "CLICK", parameters |-> [instruction |-> Str(<<"o", "n", " ">> \o Placeholder(sV))]],
    [type |-> "TYPE", parameters |-> [instruction |-> Str(<<"f">>), variable |-> Str(sV)]],
    [type |-> "SCREENSHOT", parameters |-> [fullPage |-> Bool(TRUE)]],
    [type |-> "HOVER", parameters |-> [instruction |-> Str(<<"f">>)]] >>

\* the shapes of well-formed blueprints, and shapes with a tile of a kind
\* that the dispatcher does not know
KnownShapes == 1..5
MalformedShapes == {1, 3, 6}

Wirings == {"chain", "reversed", "ring", "cut"}

\* connections.input / connections.output of the tile at array position i of n
WiredInput(w, i, n) ==
    CASE w = "reversed" -> IF i = n THEN NULL ELSE TileIds[i + 1]
      [] w = "ring" -> IF i = 1 THEN TileIds[n] ELSE TileIds[i - 1]
      [] OTHER -> IF i = 1 THEN NULL ELSE TileIds[i - 1]

WiredOutput(w, i, n) ==
    CASE w = "reversed" -> IF i = 1 THEN NULL ELSE TileIds[i - 1]
      [] w = "ring" -> IF i = n THEN TileIds[1] ELSE TileIds[i + 1]
      [] w = "cut" -> IF i = 2 \/ i = n THEN "missing" ELSE TileIds[i + 1]
      [] OTHER -> IF i = n THEN NULL ELSE TileIds[i + 1]

Blueprint(shapes, w) ==
    [i \in 1..Len(shapes) |->
        Tile(TileIds[i], RunShapes[shapes[i]].type, RunShapes[shapes[i]].parameters,
             WiredInput(w, i, Len(shapes)), WiredOutput(w, i, Len(shapes)))]

RunBlueprints(wirings, kinds) ==
    {Blueprint(shapes, w) :
        shapes \in UNION {[1..n -> kinds] : n \in 0..MaxTiles}, w \in wirings}

RunVariables == {EmptyBag, sV :> Str(<<"a">>) @@ sW :> Str(<<"u">>)}

\* options of a run: the runner, the callbacks it is given, and the wirings of
\* the blueprints it is run on
RunConfigs == {
    [variant |-> "internal", hasProgress |-> FALSE, hasArtifact |-> FALSE, wirings |-> Wirings,
     kinds |-> KnownShapes],
    [variant |-> "internal", hasProgress |-> TRUE, hasArtifact |-> TRUE, wirings |-> {"chain"},
     kinds |-> KnownShapes],
    [variant |-> "factory", hasProgress |-> TRUE, hasArtifact |-> TRUE, wirings |-> {"chain"},
     kinds |-> KnownShapes],
    [variant |-> "internal", hasProgress |-> FALSE, hasArtifact |-> FALSE, wirings |-> {"chain"},
     kinds |-> MalformedShapes] }

CallbackThrows == {ErrorOf(<<"observer failed">>)}
StoreThrows == {ErrorOf(<<"store failed">>)}
FactoryThrows == {ErrorOf(<<"no session">>)}

-----------------------------------------------------------------------------
(* The sequence runner: executeInternal (runBlueprintDirect and            *)
(* createExecutor.run are the same loop without the two callbacks,         *)
(* crane.execute of the adapter-factory builder is the "factory" variant). *)

NoResult == [kind |-> "none"]
RunResult(success, outs, error, results) ==
    [kind |-> "run", success |-> success, outputs |-> outs, error |-> error,
     tileResults |-> results]
FailureResult(error) == [kind |-> "failure", success |-> FALSE, error |-> error]

OutputsValue(bag) == [t |-> "bag", bag |-> bag]

\* tileResults.find((r) => r.status === 'failed')?.error
RECURSIVE FirstFailedError(_, _)
FirstFailedError(results, i) ==
    IF i > Len(results) THEN UNDEF
    ELSE IF results[i].status = "failed" THEN results[i].error
    ELSE FirstFailedError(results, i + 1)

\* success that also asks for at least one result
EveryCompletedNonEmpty(results) ==
    Len(results) > 0 /\ \A i \in 1..Len(results) : results[i].status = "completed"

\* tileResults.every((r) => r.status === 'completed')
EveryCompleted(results) == \A i \in 1..Len(results) : results[i].status = "completed"

\* a result that hands out the outputs whether or not the run succeeded
BuildResultAlwaysOutputs(results, outs) ==
    LET success == EveryCompleted(results)
    IN  RunResult(success, OutputsValue(outs),
                  IF success THEN UNDEF ELSE FirstFailedError(results, 1), results)

\* the object built after the loop (builder.ts lines 505-513)
BuildResult(results, outs) ==
    LET success == EveryCompleted(results)
    IN  RunResult(success,
                  IF success THEN OutputsValue(outs) ELSE UNDEF,
                  IF success THEN UNDEF ELSE FirstFailedError(results, 1),
                  results)

\* a store that keeps nothing but the output of the step just run
StoreOutputForgets(tile, res, outs) ==
    IF res.status = "completed" /\ tile.type = "EXTRACT" /\ Truthy(P(tile, "outputVariable"))
    THEN JsString(P(tile, "outputVariable")) :> res.result
    ELSE EmptyBag

\* outputs[outputVar] = tileResult.result, when the tile is a completed EXTRACT
StoreOutput(tile, res, outs) ==
    IF res.status = "completed" /\ tile.type = "EXTRACT" /\ Truthy(P(tile, "outputVariable"))
    THEN Spread(outs, JsString(P(tile, "outputVariable")) :> res.result)
    ELSE outs

Tagged(i, cs) ==
    [k \in 1..Len(cs) |-> [tile |-> i, m |-> cs[k].m, arg |-> cs[k].arg, ret |-> cs[k].ret]]

\* a loop over the blueprint's array instead of the computed ordering
CurrentTileUnsorted == tiles[idx]

\* for (const tile of sortedTiles): the tile of the current iteration
CurrentTile == sortedTiles[idx]

\* a merge in which the caller's variables win over captured outputs
StepContextCallerWins(callerVariables, outs) == Spread(outs, callerVariables)

\* a context made of the captured outputs alone
StepContextOutputsOnly(callerVariables, outs) == outs

\* { ...variables, ...outputs }
StepContext(callerVariables, outs) == Spread(callerVariables, outs)

\* a loop that goes on after a failed tile
AfterTileNoBreak(res) == "loop"

\* if (tileResult.status === 'failed') break
AfterTile(res) == IF res.status = "failed" THEN "finish" ELSE "loop"

\* the exception raised inside executeTile, put on record
Raise(log, i, o) == IF o.exc.none THEN log ELSE Append(log, [tile |-> i, exc |-> o.exc])

InitRun ==
    /\ variables \in RunVariables
    /\ hasResolver = FALSE
    /\ \E c \in RunConfigs :
          /\ tiles \in RunBlueprints(c.wirings, c.kinds)
          /\ variant = c.variant
          /\ hasProgress = c.hasProgress
          /\ hasArtifact = c.hasArtifact
    /\ pc = "start"
    /\ sortedTiles = <<>>
    /\ idx = 0
    /\ tileResults = <<>>
    /\ outputs = EmptyBag
    /\ dispatches = <<>>
    /\ raised = <<>>
    /\ calls = <<>>
    /\ progress = <<>>
    /\ artifacts = <<>>
    /\ closeCalls = 0
    /\ adapterMade = FALSE
    /\ runResult = NoResult
    /\ escaped = NoExc
    /\ NoLocals

Init == InitRun

inputs == <<tiles, variables, hasResolver, hasProgress, hasArtifact, variant>>

\* an exception that leaves the runner without passing the finally clause
LeaveSkippingFinally(e) == /\ escaped' = e
                           /\ pc' = "done"

\* the exception e leaves the try block: control goes to the finally clause
Leave(e) == /\ escaped' = e
            /\ pc' = "finally"

\* The adapter of the run is built before the try block.  When that throws,
\* executeInternal rejects; the adapter-factory builder returns a failed result.
CreateAdapter ==
    /\ pc = "start"
    /\ \/ /\ adapterMade' = TRUE
          /\ pc' = "sort"
          /\ UNCHANGED <<runResult, escaped>>
       \/ \E e \in FactoryThrows :
             /\ adapterMade' = FALSE
             /\ pc' = "done"
             /\ IF variant = "factory"
                THEN /\ runResult' = FailureResult(
                             Str(<<"Failed to create adapter: ">> \o JsString(CatchMessage(e))))
                     /\ escaped' = escaped
                ELSE /\ escaped' = e
                     /\ runResult' = runResult
    /\ UNCHANGED <<inputs, locals, sortedTiles, idx, tileResults, outputs, dispatches, raised, calls,
                   progress,
                   artifacts, closeCalls>>

\* const sortedTiles = sortTiles(blueprint.tiles)
SortStep ==
    /\ pc = "sort"
    /\ sortedTiles' = sortTiles(tiles)
    /\ pc' = "loop"
    /\ UNCHANGED <<inputs, locals, idx, tileResults, outputs, dispatches, raised, calls,
                   progress, artifacts,
                   closeCalls, adapterMade, runResult, escaped>>

\* the head of an iteration: options.onProgress?.(tile.id, 'running')
BeginTile ==
    /\ pc = "loop"
    /\ idx < Len(sortedTiles)
    /\ idx' = idx + 1
    /\ IF hasProgress
       THEN /\ progress' = Append(progress, <<sortedTiles[idx + 1].id, "running">>)
            /\ \/ pc' = "exec" /\ escaped' = escaped
               \/ \E e \in CallbackThrows : Leave(e)
       ELSE /\ progress' = progress
            /\ pc' = "exec"
            /\ escaped' = escaped
    /\ UNCHANGED <<inputs, locals, sortedTiles, tileResults, outputs, dispatches, raised, calls, artifacts,
                   closeCalls, adapterMade, runResult>>

\* const tileResult = await executeTile(...); tileResults.push(tileResult)
ExecTile ==
    /\ pc = "exec"
    /\ LET tile == CurrentTile
           bag == StepContext(variables, outputs)
       IN  \E o \in executeTile(tile, RunAdapter, bag, hasResolver) :
              /\ dispatches' = Append(dispatches, [tileId |-> tile.id, bag |-> bag])
              /\ raised' = Raise(raised, idx, o)
              /\ calls' = calls \o Tagged(idx, o.calls)
              /\ IF o.k = "throw"
                 THEN /\ Leave(o.exc)
                      /\ tileResults' = tileResults
                 ELSE /\ tileResults' = Append(tileResults, o.result)
                      /\ pc' = "post"
                      /\ escaped' = escaped
    /\ UNCHANGED <<inputs, locals, sortedTiles, idx, outputs, progress, artifacts, closeCalls,
                   adapterMade, runResult>>

\* after the push: the terminal notification, the captured output, the
\* screenshot artifact, and the stop-on-failure test
PostTile ==
    /\ pc = "post"
    /\ LET tile == CurrentTile
           res == tileResults[Len(tileResults)]
           next == AfterTile(res)
           shot(ret) == Call("screenshot",
                             [fullPage |-> Coalesce(P(tile, "fullPage"), Bool(FALSE))], ret)
       IN  /\ progress' = IF hasProgress THEN Append(progress, <<tile.id, res.status>>)
                          ELSE progress
           /\ \/ /\ hasProgress
                 /\ \E e \in CallbackThrows : Leave(e)
                 /\ UNCHANGED <<outputs, calls, artifacts>>
              \/ /\ outputs' = StoreOutput(tile, res, outputs)
                 /\ IF res.status = "completed" /\ tile.type = "SCREENSHOT" /\ hasArtifact
                    THEN \/ \E e \in RunAdapter.throws :
                               /\ calls' = calls \o Tagged(idx, <<shot(Threw)>>)
                               /\ Leave(e)
                               /\ artifacts' = artifacts
                         \/ \E data \in RunAdapter.shots :
                               /\ calls' = calls \o Tagged(idx, <<shot(data)>>)
                               /\ artifacts' = Append(artifacts,
                                      [type |-> "screenshot", tileId |-> tile.id, data |-> data])
                               /\ \/ pc' = next /\ escaped' = escaped
                                  \/ \E e \in CallbackThrows : Leave(e)
                    ELSE /\ pc' = next
                         /\ UNCHANGED <<calls, artifacts, escaped>>
    /\ UNCHANGED <<inputs, locals, sortedTiles, idx, tileResults, dispatches, raised, closeCalls, adapterMade,
                   runResult>>

\* after the loop: the result is built; the adapter-factory builder also
\* records it on the execution inside the try block, which may throw
Finish ==
    /\ \/ pc = "finish"
       \/ pc = "loop" /\ idx = Len(sortedTiles)
    /\ \/ /\ runResult' = BuildResult(tileResults, outputs)
          /\ pc' = "finally"
          /\ escaped' = escaped
       \/ /\ variant = "factory"
          /\ \E e \in StoreThrows : Leave(e)
          /\ runResult' = runResult
    /\ UNCHANGED <<inputs, locals, sortedTiles, idx, tileResults, outputs, dispatches, raised, calls,
                   progress,
                   artifacts, closeCalls, adapterMade>>

\* finally { await adapter.close().catch(() => {}) }
Close ==
    /\ pc = "finally"
    /\ closeCalls' = closeCalls + 1
    /\ calls' = Append(calls, [tile |-> 0, m |-> "close", arg |-> <<>>, ret |-> UNDEF])
    /\ pc' = "done"
    /\ UNCHANGED <<inputs, locals, sortedTiles, idx, tileResults, outputs, dispatches, raised, progress,
                   artifacts, adapterMade, runResult, escaped>>

Next == CreateAdapter \/ SortStep \/ BeginTile \/ ExecTile \/ PostTile \/ Finish \/ Close

Spec == Init /\ [][Next]_vars

-----------------------------------------------------------------------------
(* executeTile on its own: one tile of any kind, with well-formed and      *)
(* malformed parameter bags, dispatched once.                              *)

sInstr == <<"f", " ">> \o Placeholder(sV)
Field(instruction, value, variable) ==
    [instruction |-> instruction, value |-> value, variable |-> variable]
List(items) == [t |-> "list", items |-> items]

TileCatalog == {
    [type |-> "NAVIGATE", parameters |-> [url |-> Str(Placeholder(sW))]],
    [type |-> "NAVIGATE", parameters |-> [url |-> Str(<<"u">>), waitUntil |-> Str(<<"networkidle">>),
                                          timeout |-> Num(5)]],
    [type |-> "NAVIGATE", parameters |-> EmptyBag],
    [type |-> "CLICK", parameters |-> [instruction |-> Str(sInstr)]],
    [type |-> "CLICK", parameters |-> [instruction |-> Num(5)]],
    [type |-> "TYPE", parameters |-> [instruction |-> Str(sInstr), value |-> Str(Placeholder(sV))]],
    [type |-> "TYPE", parameters |-> [instruction |-> Str(sInstr), variable |-> Str(sV)]],
    [type |-> "TYPE", parameters |-> [instruction |-> Str(sInstr), value |-> Str(<<>>),
                                      variable |-> Str(sW)]],
    [type |-> "TYPE", parameters |-> [instruction |-> Str(sInstr),
                                      credentialField |-> Str(<<"p", "a", "s", "s", "w", "o", "r", "d">>)]],
    [type |-> "TYPE", parameters |-> [instruction |-> Str(sInstr),
                                      credentialField |-> Str(<<"u", "s", "e", "r", "n", "a", "m", "e">>)]],
    [type |-> "TYPE", parameters |-> [instruction |-> Str(sInstr),
                                      credentialField |-> Str(<<"p", "i", "n">>)]],
    [type |-> "TYPE", parameters |-> [instruction |-> Str(sInstr), value |-> Str(<<"x">>),
                                      credentialField |-> Str(<<"p", "a", "s", "s", "w", "o", "r", "d">>)]],
    [type |-> "TYPE", parameters |-> [instruction |-> Str(sInstr)]],
    [type |-> "TYPE", parameters |-> [instruction |-> Str(sInstr), value |-> Num(5)]],
    [type |-> "TYPE", parameters |-> EmptyBag],
    [type |-> "AUTH", parameters |-> EmptyBag],
    [type |-> "EXTRACT", parameters |-> [instruction |-> Str(sInstr), outputVariable |-> Str(sV)]],
    [type |-> "EXTRACT", parameters |-> [instruction |-> Str(sInstr), schema |-> Str(<<"s">>)]],
    [type |-> "EXTRACT", parameters |-> EmptyBag],
    [type |-> "SCREENSHOT", parameters |-> EmptyBag],
    [type |-> "SCREENSHOT", parameters |-> [fullPage |-> Bool(TRUE)]],
    [type |-> "WAIT", parameters |-> EmptyBag],
    [type |-> "WAIT", parameters |-> [ms |-> Num(5)]],
    [type |-> "SELECT", parameters |-> [instruction |-> Str(sInstr), value |-> Str(Placeholder(sW))]],
    [type |-> "SELECT", parameters |-> [instruction |-> Str(sInstr)]],
    [type |-> "FORM", parameters |-> [fields |-> List(<<Field(Str(sInstr), Str(Placeholder(sV)), UNDEF),
                                                        Field(Str(<<"g">>), UNDEF, Str(sW))>>)]],
    [type |-> "FORM", parameters |-> [fields |-> List(<<Field(Str(<<"g">>), UNDEF, UNDEF)>>)]],
    [type |-> "FORM", parameters |-> [fields |-> List(<<>>)]],
    [type |-> "FORM", parameters |-> [fields |-> List(<<Field(UNDEF, UNDEF, UNDEF)>>)]],
    [type |-> "FORM", parameters |-> EmptyBag],
    [type |-> "HOVER", parameters |-> [instruction |-> Str(sInstr)]] }

TileVariables == {EmptyBag, sV :> Str(<<"a">>) @@ sW :> Num(42)}

IdleRunner ==
    /\ sortedTiles = <<>>
    /\ idx = 0
    /\ tileResults = <<>>
    /\ outputs = EmptyBag
    /\ dispatches = <<>>
    /\ raised = <<>>
    /\ calls = <<>>
    /\ progress = <<>>
    /\ artifacts = <<>>
    /\ closeCalls = 0
    /\ adapterMade = FALSE
    /\ runResult = NoResult
    /\ escaped = NoExc

Idle == IdleRunner /\ NoLocals

InitTile ==
    /\ \E shape \in TileCatalog :
          tiles = <<Tile(TileIds[1], shape.type, shape.parameters, NULL, NULL)>>
    /\ variables \in TileVariables
    /\ hasResolver \in BOOLEAN
    /\ hasProgress = FALSE
    /\ hasArtifact = FALSE
    /\ variant = "internal"
    /\ pc = "tile"
    /\ Idle

\* one call of executeTile(tile, adapter, variables, credentials)
DispatchTile ==
    /\ pc = "tile"
    /\ \E o \in executeTile(tiles[1], FullAdapter, variables, hasResolver) :
          /\ calls' = Tagged(1, o.calls)
          /\ dispatches' = <<[tileId |-> tiles[1].id, bag |-> variables]>>
          /\ raised' = Raise(raised, 1, o)
          /\ IF o.k = "throw"
             THEN escaped' = o.exc /\ tileResults' = tileResults
             ELSE escaped' = escaped /\ tileResults' = <<o.result>>
    /\ pc' = "tiled"
    /\ UNCHANGED <<inputs, locals, sortedTiles, idx, outputs, progress, artifacts, closeCalls,
                   adapterMade, runResult>>

NextTile == DispatchTile

SpecTile == InitTile /\ [][NextTile]_vars

-----------------------------------------------------------------------------
(* sortTiles on its own: every list of up to MaxSortLen tiles with         *)
(* distinct ids, each pointer null or the id of a tile, and a successor    *)
(* pointer possibly an id that no tile has.                                *)

SortInputPointers(n) == {NULL} \cup {TileIds[i] : i \in 1..n}
SortOutputPointers(n) == {NULL, "missing"} \cup {TileIds[i] : i \in 1..n}

InitSort ==
    /\ \E n \in 0..MaxSortLen :
          \E ins \in [1..n -> SortInputPointers(n)], outs \in [1..n -> SortOutputPointers(n)] :
             tiles = [i \in 1..n |-> Tile(TileIds[i], "WAIT", EmptyBag, ins[i], outs[i])]
    /\ variables = EmptyBag
    /\ hasResolver = FALSE
    /\ hasProgress = FALSE
    /\ hasArtifact = FALSE
    /\ variant = "internal"
    /\ pc = "unsorted"
    /\ Idle

\* one call of sortTiles(tiles)
DoSort ==
    /\ pc = "unsorted"
    /\ sortedTiles' = sortTiles(tiles)
    /\ pc' = "sorted"
    /\ UNCHANGED <<inputs, locals, idx, tileResults, outputs, dispatches, raised, calls,
                   progress, artifacts,
                   closeCalls, adapterMade, runResult, escaped>>

NextSort == DoSort

SpecSort == InitSort /\ [][NextSort]_vars

-----------------------------------------------------------------------------
(* sortTiles statement by statement: the search for the start tile, then   *)
(* one action per iteration of the while loop.  A predecessor pointer is   *)
(* only ever compared with null, so it is null or the id of the first      *)
(* tile; a successor pointer is null, the id of a tile, or an id no tile   *)
(* has.                                                                    *)

MaxWalkLen == 3      \* longest tile list walked statement by statement

WalkInputPointers == {NULL, TileIds[1]}

InitWalk ==
    /\ \E n \in 0..MaxWalkLen :
          \E ins \in [1..n -> WalkInputPointers], outs \in [1..n -> SortOutputPointers(n)] :
             tiles = [i \in 1..n |-> Tile(TileIds[i], "WAIT", EmptyBag, ins[i], outs[i])]
    /\ variables = EmptyBag
    /\ hasResolver = FALSE
    /\ hasProgress = FALSE
    /\ hasArtifact = FALSE
    /\ variant = "internal"
    /\ pc = "find"
    /\ Idle

walkFrame == <<inputs, idx, tileResults, outputs, dispatches, raised, calls, progress, artifacts,
               closeCalls, adapterMade, runResult, escaped, templateParts, interpolated,
               services>>

\* const startTile = tiles.find(...); if (!startTile) return tiles
FindStart ==
    /\ pc = "find"
    /\ LET startTile == FindEntryFrom(tiles, 1)
       IN  IF startTile = 0
           THEN /\ sortedTiles' = tiles
                /\ pc' = "returned"
                /\ UNCHANGED <<sorted, visited, current>>
           ELSE /\ current' = startTile
                /\ sorted' = <<>>
                /\ visited' = {}
                /\ pc' = "while"
                /\ sortedTiles' = sortedTiles
    /\ UNCHANGED walkFrame

\* a loop condition without the cycle guard
WalkGuardNoCycleCheck(ts, cur, vis) == cur # 0

\* while (current && !visited.has(current.id))
WalkGuard(ts, cur, vis) == cur # 0 /\ ts[cur].id \notin vis

\* one iteration of the loop body; the break leaves the loop and returns
WalkStep ==
    /\ pc = "while"
    /\ WalkGuard(tiles, current, visited)
    /\ sorted' = Append(sorted, tiles[current])
    /\ visited' = visited \cup {tiles[current].id}
    /\ LET nextId == tiles[current].connections.output
       IN  IF nextId # NULL
           THEN /\ current' = FindByIdFrom(tiles, nextId, 1)
                /\ pc' = "while"
                /\ sortedTiles' = sortedTiles
           ELSE /\ current' = current
                /\ pc' = "returned"
                /\ sortedTiles' = sorted'
    /\ UNCHANGED walkFrame

\* the loop condition is false: return sorted
WalkExit ==
    /\ pc = "while"
    /\ ~WalkGuard(tiles, current, visited)
    /\ sortedTiles' = sorted
    /\ pc' = "returned"
    /\ UNCHANGED <<sorted, visited, current>>
    /\ UNCHANGED walkFrame

NextWalk == FindStart \/ WalkStep \/ WalkExit

\* the statements of sortTiles are run one after the other without a pause
SpecWalk == InitWalk /\ [][NextWalk]_vars /\ WF_vars(NextWalk)

-----------------------------------------------------------------------------
(* interpolate on its own: templates put together from up to MaxParts      *)
(* pieces (placeholders of names that are in the bag, that are not, and    *)
(* that only Object.prototype has; text that looks like a placeholder but  *)
(* is none; plain text) and a few variable bags.                           *)

MaxParts == 3        \* most pieces a template is put together from

TemplatePieces == {
    Placeholder(sV), Placeholder(sW), Placeholder(<<"x">>), Placeholder(sToString),
    <<"{", "{", "}", "}">>, <<"{", "{", "v", " ", "}", "}">>,
    <<"{">>, <<"a">>, <<" ">> }

InterpolateVariables == {
    EmptyBag,
    sV :> Str(<<"a">>) @@ sW :> Num(42),
    sV :> Str(Placeholder(sW)) @@ sW :> UNDEF,
    sV :> JSNULL @@ sW :> Bool(TRUE) }

RECURSIVE Flatten(_)
Flatten(parts) == IF parts = <<>> THEN <<>> ELSE Head(parts) \o Flatten(Tail(parts))

InitInterpolate ==
    /\ tiles = <<>>
    /\ variables \in InterpolateVariables
    /\ hasResolver = FALSE
    /\ hasProgress = FALSE
    /\ hasArtifact = FALSE
    /\ variant = "internal"
    /\ pc = "template"
    /\ sortedTiles = <<>>
    /\ idx = 0
    /\ tileResults = <<>>
    /\ outputs = EmptyBag
    /\ dispatches = <<>>
    /\ raised = <<>>
    /\ calls = <<>>
    /\ progress = <<>>
    /\ artifacts = <<>>
    /\ closeCalls = 0
    /\ adapterMade = FALSE
    /\ runResult = NoResult
    /\ escaped = NoExc
    /\ sorted = <<>>
    /\ visited = {}
    /\ current = 0
    /\ \E n \in 0..MaxParts : templateParts \in [1..n -> TemplatePieces]
    /\ interpolated = NotCalled
    /\ NoServices

\* one call of interpolate(template, variables)
DoInterpolate ==
    /\ pc = "template"
    /\ interpolated' = Str(interpolate(Flatten(templateParts), variables))
    /\ pc' = "interpolated"
    /\ UNCHANGED <<inputs, sortedTiles, idx, tileResults, outputs, dispatches, raised, calls,
                   progress, artifacts, closeCalls, adapterMade, runResult, escaped,
                   sorted, visited, current, templateParts, services>>

NextInterpolate == DoInterpolate

SpecInterpolate == InitInterpolate /\ [][NextInterpolate]_vars

-----------------------------------------------------------------------------
(* Properties *)

Failed(i) == tileResults[i].status = "failed"
Completed(i) == tileResults[i].status = "completed"

\* C1: stop-on-failure.  Once a failed step result exists it is the last
\* entry of the list, no later step of the ordering has been entered or
\* dispatched, no provider call and no notification belongs to a later step,
\* and the returned result carries exactly that list.
StopOnFailure ==
    \A i \in 1..Len(tileResults) :
        Failed(i) =>
            /\ i = Len(tileResults)
            /\ idx = i
            /\ Len(dispatches) = i
            /\ \A k \in 1..Len(calls) : calls[k].tile <= i
            /\ \A k \in 1..Len(progress) :
                   \E j \in 1..i : progress[k][1] = sortedTiles[j].id
            /\ runResult.kind = "run" => runResult.tileResults = tileResults

\* step 2 of 3 failed: two results, the run is over
StopOnFailureWitness ==
    /\ pc = "done"
    /\ Len(sortedTiles) = 3
    /\ Len(tileResults) = 2
    /\ Failed(2)
    /\ runResult.kind = "run"
    /\ ~runResult.success

UnknownError == Str(<<"Unknown error">>)

\* C2 (as stated): executeTile yields exactly one step result and lets no
\* exception escape; every exception raised while the step runs gives a
\* failed result whose error is the exception's message.
TileCarriesExceptionMessage ==
    pc = "tiled" =>
        /\ escaped = NoExc
        /\ Len(tileResults) = 1
        /\ \A k \in 1..Len(raised) :
               /\ Failed(1)
               /\ tileResults[1].error = raised[k].exc.message

\* C2 (amended): executeTile yields exactly one step result, for the tile it
\* was given, and lets no exception escape; an exception raised while the
\* step runs gives a failed result whose error is the message of the
\* exception when it is an Error instance and 'Unknown error' otherwise.
TileNeverThrows ==
    pc = "tiled" =>
        /\ escaped = NoExc
        /\ Len(tileResults) = 1
        /\ tileResults[1].tileId = tiles[1].id
        /\ tileResults[1].status \in {"completed", "failed"}
        /\ \A k \in 1..Len(raised) :
               /\ Failed(1)
               /\ tileResults[1].error =
                      IF raised[k].exc.isError THEN raised[k].exc.message ELSE UnknownError

\* a provider call threw a value that is no Error, and the step failed
TileNeverThrowsWitness ==
    /\ pc = "tiled"
    /\ Len(raised) = 1
    /\ ~raised[1].exc.isError
    /\ \E k \in 1..Len(calls) : calls[k].m = "extract"
    /\ Len(tileResults) = 1
    /\ Failed(1)

\* C3 (as stated): success is true iff the step-result list is non-empty and
\* every entry is completed.
SuccessIffNonEmptyAndAllCompleted ==
    runResult.kind = "run" =>
        (runResult.success <=>
            /\ Len(runResult.tileResults) > 0
            /\ \A i \in 1..Len(runResult.tileResults) :
                   runResult.tileResults[i].status = "completed")

\* C3 (amended): success is true iff every entry of the step-result list is
\* completed; a run whose ordering is empty reports success.
SuccessIffAllCompleted ==
    runResult.kind = "run" =>
        /\ runResult.tileResults = tileResults
        /\ runResult.success <=>
               \A i \in 1..Len(tileResults) : tileResults[i].status = "completed"
        /\ Len(sortedTiles) = 0 => runResult.success

\* a run over an empty ordering has ended with success = true
SuccessIffAllCompletedWitness ==
    /\ pc = "done"
    /\ runResult.kind = "run"
    /\ Len(sortedTiles) = 0
    /\ Len(runResult.tileResults) = 0
    /\ runResult.success

IsExtractOf(i, name) ==
    /\ sortedTiles[i].type = "EXTRACT"
    /\ Truthy(P(sortedTiles[i], "outputVariable"))
    /\ JsString(P(sortedTiles[i], "outputVariable")) = name

OutputNames == {sV, sW}

CloseExactlyOnce ==
    /\ closeCalls <= 1
    /\ ~adapterMade => closeCalls = 0
    /\ (pc = "done" /\ adapterMade) => closeCalls = 1
    /\ closeCalls = Cardinality({k \in 1..Len(calls) : calls[k].m = "close"})
    /\ \A k \in 1..Len(calls) : calls[k].m = "close" => k = Len(calls)

\* an exception left the loop in the second of three steps, after provider
\* calls were made, and the adapter was closed once
CloseExactlyOnceWitness ==
    /\ pc = "done"
    /\ adapterMade
    /\ escaped # NoExc
    /\ Len(sortedTiles) = 3
    /\ idx = 2
    /\ Len(calls) > 1
    /\ closeCalls = 1

\* C6 (as stated): a TYPE step with a credentialField parameter, no value
\* and no variable, run without a credential resolver (and with a provider
\* that raises no exception), fails and makes no act call.
TypeWithoutResolverFails ==
    ( /\ pc = "tiled"
      /\ raised = <<>>
      /\ tiles[1].type = "TYPE"
      /\ IsStr(P(tiles[1], "instruction"))
      /\ Truthy(P(tiles[1], "credentialField"))
      /\ ~Truthy(P(tiles[1], "value"))
      /\ ~Truthy(P(tiles[1], "variable"))
      /\ ~hasResolver )
    => /\ Len(tileResults) = 1
       /\ Failed(1)
       /\ \A k \in 1..Len(calls) : calls[k].m # "act"

\* C7: the step results are a prefix of the computed ordering, the k-th
\* dispatch is that of the k-th ordered step (so no step is dispatched
\* twice), and an iteration is entered only when the results of all earlier
\* iterations have been appended.
OrderedDispatch ==
    /\ Len(tileResults) <= Len(sortedTiles)
    /\ \A i \in 1..Len(tileResults) : tileResults[i].tileId = sortedTiles[i].id
    /\ Len(dispatches) <= Len(sortedTiles)
    /\ \A k \in 1..Len(dispatches) : dispatches[k].tileId = sortedTiles[k].id
    /\ \A k1, k2 \in 1..Len(dispatches) :
           k1 # k2 => dispatches[k1].tileId # dispatches[k2].tileId
    /\ Len(dispatches) = Len(tileResults)
    /\ idx \in {Len(tileResults), Len(tileResults) + 1}
    /\ pc = "exec" => idx = Len(tileResults) + 1

\* three steps ran to the end in an order that is not the array order
OrderedDispatchWitness ==
    /\ pc = "done"
    /\ Len(tileResults) = 3
    /\ sortedTiles # tiles
    /\ sortedTiles[1].id = tiles[3].id

\* C8: in the result of the sequence runner, outputs is present exactly when
\* success is true and then is the bag of all captured outputs; when success
\* is false, error is the error of the first failed step result.
ResultShape ==
    runResult.kind = "run" =>
        /\ (runResult.outputs # UNDEF) <=> runResult.success
        /\ runResult.success =>
               /\ runResult.outputs = OutputsValue(outputs)
               /\ runResult.error = UNDEF
               /\ \A i \in 1..Len(tileResults) : \A v \in OutputNames :
                      IsExtractOf(i, v) => VarGet(runResult.outputs.bag, v) # UNDEF
        /\ ~runResult.success =>
               \E i \in 1..Len(tileResults) :
                   /\ Failed(i)
                   /\ \A j \in 1..(i - 1) : ~Failed(j)
                   /\ runResult.error = tileResults[i].error

\* a run that captured an output and then failed: no outputs, the error of
\* the failed step
ResultShapeWitness ==
    /\ pc = "done"
    /\ runResult.kind = "run"
    /\ ~runResult.success
    /\ outputs # EmptyBag
    /\ runResult.outputs = UNDEF
    /\ runResult.error = Str(<<"not found">>)

NoEntry(ts) == \A i \in 1..Len(ts) : ts[i].connections.input # NULL

\* C9: a tile list in which no tile has a null predecessor comes back from
\* sortTiles unchanged.
NoEntryUnchanged ==
    (pc = "sorted" /\ NoEntry(tiles)) => sortedTiles = tiles

\* three tiles without a start tile, whose successor pointers would order
\* them differently, were sorted
NoEntryUnchangedWitness ==
    /\ pc = "sorted"
    /\ Len(tiles) = 3
    /\ NoEntry(tiles)
    /\ tiles[1].connections.output = tiles[3].id
    /\ tiles[3].connections.output = tiles[2].id
    /\ tiles[2].connections.output = NULL

Injective(f) == \A a, b \in DOMAIN f : a # b => f[a] # f[b]

\* the tiles of ts form one straight chain, visited in the order ord
IsChain(ts, ord) ==
    LET n == Len(ts)
    IN  /\ Injective(ord)
        /\ \A k \in 1..n :
               /\ ts[ord[k]].connections.input =
                      IF k = 1 THEN NULL ELSE ts[ord[k - 1]].id
               /\ ts[ord[k]].connections.output =
                      IF k = n THEN NULL ELSE ts[ord[k + 1]].id

NullInputs(ts) == {i \in 1..Len(ts) : ts[i].connections.input = NULL}

\* C10: when the tiles form one straight chain, sortTiles returns them in
\* chain order, whatever their order in the input array.
ChainSorted ==
    (pc = "sorted" /\ Len(tiles) > 0 /\ Cardinality(NullInputs(tiles)) = 1) =>
        \A ord \in [1..Len(tiles) -> 1..Len(tiles)] :
            IsChain(tiles, ord) => sortedTiles = [k \in 1..Len(tiles) |-> tiles[ord[k]]]

\* the chain t2 -> t3 -> t1 given as the array [t1, t2, t3] was sorted
ChainSortedWitness ==
    /\ pc = "sorted"
    /\ Len(tiles) = 3
    /\ IsChain(tiles, <<2, 3, 1>>)
    /\ sortedTiles = <<tiles[2], tiles[3], tiles[1]>>

IdsOf(seq) == {seq[k].id : k \in 1..Len(seq)}

\* C11: sortTiles terminates on every tile list, with cycles and with
\* successor pointers that name no tile: the loop makes no more iterations
\* than there are tiles, the walk stops at a null successor, at a successor
\* that names no tile, or at an id already visited, and what is returned has
\* no tile id twice and is no longer than the input.
WalkTerminates ==
    /\ [](/\ Len(sorted) <= Len(tiles)
          /\ Injective([k \in 1..Len(sorted) |-> sorted[k].id])
          /\ visited = IdsOf(sorted)
          /\ pc = "returned" =>
                 /\ Len(sortedTiles) <= Len(tiles)
                 /\ Injective([k \in 1..Len(sortedTiles) |-> sortedTiles[k].id])
                 /\ sortedTiles = sortTiles(tiles)
                 /\ sorted # <<>> =>
                        LET nextId == sorted[Len(sorted)].connections.output
                        IN  \/ nextId = NULL
                            \/ nextId \notin IdsOf(tiles)
                            \/ nextId \in visited)
    /\ <>(pc = "returned")

\* a walk that went round a cycle of three tiles and stopped when it came
\* back to the start tile
WalkTerminatesWitness ==
    /\ pc = "returned"
    /\ Len(tiles) = 3
    /\ Len(sortedTiles) = 3
    /\ sortedTiles[3].connections.output = sortedTiles[1].id
    /\ sortedTiles[1].id # tiles[1].id

\* s is the chain of ts that starts at the first tile with a null predecessor
\* and follows the successor pointers for as long as they name a tile not yet
\* on the chain
IsEntryChain(ts, s) ==
    /\ Len(s) >= 1
    /\ \E i \in NullInputs(ts) : s[1] = ts[i] /\ \A j \in NullInputs(ts) : i <= j
    /\ \A k \in 1..Len(s) : \E i \in 1..Len(ts) : s[k] = ts[i]
    /\ \A k \in 1..(Len(s) - 1) : s[k].connections.output = s[k + 1].id
    /\ Injective([k \in 1..Len(s) |-> s[k].id])
    /\ LET last == s[Len(s)].connections.output
       IN  last = NULL \/ last \notin IdsOf(ts) \/ last \in IdsOf(s)

\* C12: when a tile with a null predecessor exists, the ordering of a run is
\* the chain reached from it; a tile off the chain is never dispatched, no
\* provider call and no result belongs to it, and its omission is no error:
\* a run whose dispatched steps all completed reports success without an
\* error.
UnreachableDropped ==
    (adapterMade /\ pc \notin {"start", "sort"} /\ NullInputs(tiles) # {}) =>
        /\ IsEntryChain(tiles, sortedTiles)
        /\ \A i \in 1..Len(tiles) :
               tiles[i].id \notin IdsOf(sortedTiles) =>
                   /\ \A k \in 1..Len(dispatches) : dispatches[k].tileId # tiles[i].id
                   /\ \A k \in 1..Len(tileResults) : tileResults[k].tileId # tiles[i].id
        /\ \A k \in 1..Len(calls) : calls[k].tile <= Len(sortedTiles)
        /\ (runResult.kind = "run" /\ \A k \in 1..Len(tileResults) : Completed(k)) =>
               /\ runResult.success
               /\ runResult.error = UNDEF
               /\ Len(runResult.tileResults) = Len(sortedTiles)

\* a blueprint of three tiles whose second tile points to a tile that does
\* not exist: the run ended with success after two steps, the third tile
\* was never dispatched
UnreachableDroppedWitness ==
    /\ pc = "done"
    /\ Len(tiles) = 3
    /\ Len(sortedTiles) = 2
    /\ tiles[3].id \notin IdsOf(sortedTiles)
    /\ runResult.kind = "run"
    /\ runResult.success
    /\ Len(dispatches) = 2
    /\ escaped = NoExc

Reorderings(n) == {f \in [1..n -> 1..n] : Injective(f)}

FirstNull(ts) == CHOOSE i \in NullInputs(ts) : \A j \in NullInputs(ts) : i <= j

\* C13: when several tiles have a null predecessor, the start tile is the
\* one that comes first in the array and the ordering is the chain from it;
\* putting the array in another order changes the ordering only when it
\* changes which of them comes first.
FirstEntryWins ==
    (pc = "sorted" /\ Cardinality(NullInputs(tiles)) >= 2) =>
        /\ sortedTiles[1] = tiles[FirstNull(tiles)]
        /\ IsEntryChain(tiles, sortedTiles)
        /\ \A f \in Reorderings(Len(tiles)) :
               LET other == [k \in 1..Len(tiles) |-> tiles[f[k]]]
               IN  /\ sortTiles(other)[1] = other[FirstNull(other)]
                   /\ other[FirstNull(other)] = tiles[FirstNull(tiles)] =>
                          sortTiles(other) = sortedTiles

\* two tiles with a null predecessor, each the head of its own chain: the
\* one that comes first in the array was taken and the other was left out
FirstEntryWinsWitness ==
    /\ pc = "sorted"
    /\ Len(tiles) = 3
    /\ NullInputs(tiles) = {2, 3}
    /\ tiles[2].connections.output = tiles[1].id
    /\ tiles[3].connections.output = NULL
    /\ sortedTiles = <<tiles[2], tiles[1]>>

\* the pieces that are placeholders, with their names
PlaceholderNames == {sV, sW, <<"x">>, sToString}
IsPlaceholder(piece) == \E name \in PlaceholderNames : piece = Placeholder(name)
NameOf(piece) == CHOOSE name \in PlaceholderNames : piece = Placeholder(name)

\* a piece as the statement of C14 has it: a placeholder whose name is in
\* the bag (with a value that is not undefined) becomes the string form of
\* its value, anything else stays
ExpandAsStated(piece, bag) ==
    IF IsPlaceholder(piece) /\ NameOf(piece) \in DOMAIN bag /\ bag[NameOf(piece)] # UNDEF
    THEN JsString(bag[NameOf(piece)])
    ELSE piece

\* C14 (as stated): interpolate returns the template with every {{name}}
\* whose name is in the bag replaced by the string form of its value and
\* every {{name}} whose name is not in the bag left as written, and leaves
\* the bag alone.
InterpolateAsStated ==
    pc = "interpolated" =>
        /\ IsStr(interpolated)
        /\ interpolated.s =
               Flatten([k \in 1..Len(templateParts) |-> ExpandAsStated(templateParts[k], variables)])

\* s has an occurrence of {{name}}: two opening braces, one or more word
\* characters, two closing braces
HasPlaceholder(s) ==
    \E i, j \in 1..Len(s) :
        /\ j >= i + 3
        /\ j + 1 <= Len(s)
        /\ s[i] = "{" /\ s[i + 1] = "{"
        /\ s[j] = "}" /\ s[j + 1] = "}"
        /\ \A k \in (i + 2)..(j - 1) : s[k] \in WordChars

\* C15: interpolating a template that has no placeholder gives the template
\* back, whatever the variable bag.
NoPlaceholderUnchanged ==
    (pc = "interpolated" /\ ~HasPlaceholder(Flatten(templateParts))) =>
        interpolated = Str(Flatten(templateParts))

\* a template with braces and with text that only looks like a placeholder
\* came back unchanged from a bag that has values
NoPlaceholderUnchangedWitness ==
    /\ pc = "interpolated"
    /\ templateParts = << <<"{">>, <<"{", "{", "v", " ", "}", "}">>, <<"{", "{", "}", "}">> >>
    /\ sV \in DOMAIN variables
    /\ interpolated = Str(Flatten(templateParts))

\* C16: the bag handed to the steps of a run only grows: every name of the
\* caller's variables is in the bag of every step, every name in the bag of
\* a step is in the bag of the next, and the captured outputs never lose a
\* name from one state of the run to the next.
BagGrows ==
    /\ [](\A k \in 1..Len(dispatches) :
              /\ DOMAIN variables \subseteq DOMAIN dispatches[k].bag
              /\ (DOMAIN dispatches[k].bag \ DOMAIN variables) \subseteq DOMAIN outputs
              /\ k > 1 => DOMAIN dispatches[k - 1].bag \subseteq DOMAIN dispatches[k].bag)
    /\ [][DOMAIN outputs \subseteq DOMAIN outputs']_vars

\* a run without caller variables: the first step saw an empty bag, the
\* second and the third saw the name captured by the first
BagGrowsWitness ==
    /\ pc = "done"
    /\ variables = EmptyBag
    /\ Len(dispatches) = 3
    /\ DOMAIN dispatches[1].bag = {}
    /\ DOMAIN dispatches[2].bag = {sV}
    /\ DOMAIN dispatches[3].bag = {sV}
    /\ sortedTiles[2].type # "EXTRACT"

\* the completed EXTRACT steps before step j that declare the name v
ExtractsBefore(j, v) == {i \in 1..(j - 1) : IsExtractOf(i, v) /\ Completed(i)}

\* C17: the bag of each step is the caller's variables overlaid with the
\* outputs captured by the steps before it: a name captured by a completed
\* EXTRACT has the payload of the latest such step, whether or not the
\* caller has a variable of that name, every other name has the caller's
\* value, and no other name is in the bag; the caller's variables are the
\* same in every state of the run.
MergedContext ==
    /\ [](\A j \in 1..Len(dispatches) :
              LET bag == dispatches[j].bag
                  captured == {v \in OutputNames : ExtractsBefore(j, v) # {}}
              IN  /\ DOMAIN bag = DOMAIN variables \cup captured
                  /\ \A v \in captured :
                         \E i \in ExtractsBefore(j, v) :
                             /\ \A i2 \in ExtractsBefore(j, v) : i2 <= i
                             /\ bag[v] = tileResults[i].result
                  /\ \A v \in DOMAIN variables \ captured : bag[v] = variables[v])
    /\ [][variables' = variables]_vars

\* the caller passed v, an EXTRACT captured another value under v, the next
\* step saw the captured value and the caller's variables still hold the
\* caller's value
MergedContextWitness ==
    /\ pc = "done"
    /\ Len(dispatches) = 2
    /\ sV \in DOMAIN variables
    /\ IsExtractOf(1, sV)
    /\ Completed(1)
    /\ dispatches[1].bag[sV] = variables[sV]
    /\ dispatches[2].bag[sV] = tileResults[1].result
    /\ dispatches[2].bag[sW] = variables[sW]
    /\ variables[sV] = Str(<<"a">>)
    /\ tileResults[1].result # variables[sV]

\* the act calls on record, in the order they were made
Acts == SelectSeq(calls, LAMBDA c : c.m = "act")

Succeeded(c) == c.ret # Threw /\ c.ret.success

\* the answers on record of the calls of method m
Answers(m) == {calls[k].ret : k \in {j \in 1..Len(calls) : calls[j].m = m}}

\* C18: an AUTH step run without a credential resolver fails at once: no
\* call at all is made (no currentUrl, no act).  With a resolver that has no
\* credential for the domain of the current page, the step fails with an
\* error that names that domain and no act call is made.
AuthNeedsCredentials ==
    (pc = "tiled" /\ tiles[1].type = "AUTH") =>
        /\ ~hasResolver =>
               /\ calls = <<>>
               /\ raised = <<>>
               /\ Failed(1)
               /\ tileResults[1].error = Str(<<"No credential resolver provided for AUTH tile">>)
        /\ (hasResolver /\ JSNULL \in Answers("credentials")) =>
               /\ Acts = <<>>
               /\ Len(calls) = 2
               /\ calls[1].m = "currentUrl"
               /\ calls[2].arg = <<Hostname(calls[1].ret)>>
               /\ Failed(1)
               /\ tileResults[1].error =
                      Str(<<"No credentials found for domain: ", Hostname(calls[1].ret)>>)

\* the resolver was asked for the domain of the current page and had no
\* credential for it
AuthNeedsCredentialsWitness ==
    /\ pc = "tiled"
    /\ tiles[1].type = "AUTH"
    /\ hasResolver
    /\ Len(calls) = 2
    /\ calls[1].ret = Url("x.test")
    /\ calls[2].m = "credentials"
    /\ calls[2].arg = <<"x.test">>
    /\ calls[2].ret = JSNULL
    /\ Failed(1)

AuthTexts(cred) ==
    << <<"Type \"">> \o cred.username \o <<"\" into the username or email field">>,
       <<"Type \"">> \o cred.password \o <<"\" into the password field">>,
       <<"Click the login or sign in button">> >>

AuthErrorPrefix == << <<"Failed to enter username: ">>, <<"Failed to enter password: ">>, <<>> >>

\* C19: an AUTH step whose credentials were resolved types the username,
\* then types the password, then submits, and makes no other act call; a
\* sub-action that answers success = false is the last one made and the step
\* fails with the error of that sub-action; the step is completed exactly
\* when all three were made and succeeded.
AuthInOrder ==
    (pc = "tiled" /\ tiles[1].type = "AUTH" /\ Cred \in Answers("credentials")) =>
        /\ Len(Acts) <= 3
        /\ \A k \in 1..Len(Acts) :
               /\ Acts[k].arg = AuthTexts(Cred)[k]
               /\ ~Succeeded(Acts[k]) => (k = Len(Acts) /\ Failed(1))
               /\ (Acts[k].ret # Threw /\ ~Acts[k].ret.success) =>
                      tileResults[1].error =
                          IF k = 3 THEN Acts[k].ret.message
                          ELSE Str(AuthErrorPrefix[k] \o JsString(Acts[k].ret.message))
        /\ Completed(1) <=> (Len(Acts) = 3 /\ \A k \in 1..3 : Succeeded(Acts[k]))

\* the username went in, the password did not: two act calls, no submit
AuthInOrderWitness ==
    /\ pc = "tiled"
    /\ tiles[1].type = "AUTH"
    /\ Cred \in Answers("credentials")
    /\ Len(Acts) = 2
    /\ Succeeded(Acts[1])
    /\ Acts[2].ret = ActResult(FALSE, Str(<<"not found">>))
    /\ Failed(1)
    /\ tileResults[1].error = Str(<<"Failed to enter password: ", "not found">>)

\* C20: a FORM step makes one type action per field, in list order, and no
\* other call; a field whose action answers success = false is the last one
\* attempted and the step fails with the error of that field; the step is
\* completed exactly when every field's action was made and succeeded, which
\* for an empty list means with no call at all.
FormInOrder ==
    (pc = "tiled" /\ tiles[1].type = "FORM" /\ P(tiles[1], "fields").t = "list") =>
        LET fields == P(tiles[1], "fields").items
        IN  /\ Len(calls) <= Len(fields)
            /\ \A k \in 1..Len(calls) :
                   LET instruction == interpolate(fields[k].instruction.s, variables)
                   IN  /\ calls[k].m = "act"
                       /\ calls[k].arg = TypeText(FieldValue(fields[k], variables), instruction)
                       /\ ~Succeeded(calls[k]) => (k = Len(calls) /\ Failed(1))
                       /\ (calls[k].ret # Threw /\ ~calls[k].ret.success) =>
                              tileResults[1].error =
                                  Str(<<"Failed to fill field \"">> \o instruction \o <<"\": ">>
                                          \o JsString(calls[k].ret.message))
            /\ Completed(1) <=>
                   (Len(calls) = Len(fields) /\ \A k \in 1..Len(calls) : Succeeded(calls[k]))
            /\ fields = <<>> => (Completed(1) /\ calls = <<>>)

\* the first of two fields was filled, the second was not: the step failed
\* with the error of the second field
FormInOrderWitness ==
    /\ pc = "tiled"
    /\ tiles[1].type = "FORM"
    /\ P(tiles[1], "fields").t = "list"
    /\ Len(P(tiles[1], "fields").items) = 2
    /\ sV \in DOMAIN variables
    /\ Len(calls) = 2
    /\ Succeeded(calls[1])
    /\ calls[1].arg = <<"Type \"", "a", "\" into ", "f", " ", "a">>
    /\ calls[2].ret = ActResult(FALSE, Str(<<"not found">>))
    /\ Failed(1)
    /\ tileResults[1].error = Str(<<"Failed to fill field \"", "g", "\": ", "not found">>)

KnownKinds == {"NAVIGATE", "CLICK", "TYPE", "EXTRACT", "SCREENSHOT", "WAIT", "SELECT", "FORM", "AUTH"}

\* C21: a step whose kind is not one of the known kinds gets a failed step
\* result whose error names the kind; no provider call is made for it, no
\* exception is raised by it, and the run stops there: the step's result is
\* the last one and the run returns a failed result carrying that error.
UnknownKindFails ==
    \A i \in 1..Len(tileResults) :
        sortedTiles[i].type \notin KnownKinds =>
            /\ Failed(i)
            /\ tileResults[i].error = Str(<<"Unknown tile type: ", sortedTiles[i].type>>)
            /\ tileResults[i].result = UNDEF
            /\ \A k \in 1..Len(calls) : calls[k].tile # i
            /\ \A k \in 1..Len(raised) : raised[k].tile # i
            /\ i = Len(tileResults)
            /\ idx = i
            /\ pc = "done" =>
                   /\ escaped = NoExc
                   /\ runResult.kind = "run"
                   /\ ~runResult.success
                   /\ runResult.error = tileResults[i].error

\* the second of three steps is of an unknown kind: the run is over with
\* two results
UnknownKindFailsWitness ==
    /\ pc = "done"
    /\ Len(sortedTiles) = 3
    /\ Len(tileResults) = 2
    /\ Completed(1)
    /\ sortedTiles[2].type = "HOVER"
    /\ Failed(2)
    /\ sortedTiles[3].type = "CLICK"

\* every provider call made so far returned, and every act reported success
ProviderCallsSucceeded ==
    \A k \in 1..Len(calls) :
        /\ calls[k].ret # Threw
        /\ calls[k].m = "act" => calls[k].ret.success

NeedsCredentials(tile) ==
    \/ tile.type = "AUTH"
    \/ tile.type = "TYPE" /\ Truthy(P(tile, "credentialField"))

\* C22: when the provider was created and every call to it succeeds, no step
\* needs credentials, every step is of a known kind and no callback raises, every
\* step result so far is completed, and the finished run returns success
\* with exactly one completed step result per step of the ordering, in the
\* order of the ordering.
AllSucceedGivesSuccess ==
    (/\ adapterMade
     /\ ProviderCallsSucceeded
     /\ escaped = NoExc
     /\ \A i \in 1..Len(sortedTiles) :
            sortedTiles[i].type \in KnownKinds /\ ~NeedsCredentials(sortedTiles[i]))
        => /\ \A i \in 1..Len(tileResults) : Completed(i)
           /\ pc = "done" =>
                  /\ runResult.kind = "run"
                  /\ runResult.success
                  /\ Len(runResult.tileResults) = Len(sortedTiles)
                  /\ \A i \in 1..Len(sortedTiles) :
                         /\ runResult.tileResults[i].tileId = sortedTiles[i].id
                         /\ runResult.tileResults[i].status = "completed"

\* NAVIGATE, TYPE from a variable, CLICK: three completed entries
AllSucceedGivesSuccessWitness ==
    /\ pc = "done"
    /\ ProviderCallsSucceeded
    /\ escaped = NoExc
    /\ Len(sortedTiles) = 3
    /\ sortedTiles[1].type = "NAVIGATE"
    /\ sortedTiles[2].type = "TYPE"
    /\ sortedTiles[3].type = "CLICK"
    /\ Len(calls) = 4
    /\ runResult.kind = "run"
    /\ runResult.success
    /\ Len(runResult.tileResults) = 3

RECURSIVE NotificationsOf(_, _)
\* the notifications a side-channel observer sees for the first n step
\* results: 'running', then the step's terminal status
NotificationsOf(results, n) ==
    IF n = 0 THEN <<>>
    ELSE NotificationsOf(results, n - 1)
             \o << <<results[n].tileId, "running">>, <<results[n].tileId, results[n].status>> >>

\* C28 (as stated): the progress observer is a pure side channel.  In a
\* finished run with an observer and no screenshot step (so that the
\* observer is the only callback), the observer has seen 'running' and the
\* terminal status of each dispatched step and nothing else, and the run
\* ended as the same run without an observer does: no exception left the
\* runner, and the Run Result carries one step result per dispatched step,
\* the loop having stopped only at the end of the ordering or at a failed
\* step.
ObserverIsSideChannel ==
    (/\ pc = "done"
     /\ hasProgress
     /\ adapterMade
     /\ variant = "internal"
     /\ \A i \in 1..Len(sortedTiles) : sortedTiles[i].type # "SCREENSHOT")
        => /\ progress = NotificationsOf(tileResults, Len(tileResults))
           /\ Len(dispatches) = Len(tileResults)
           /\ escaped = NoExc
           /\ runResult.kind = "run"
           /\ runResult.tileResults = tileResults
           /\ \/ Len(tileResults) = Len(sortedTiles)
              \/ Len(tileResults) > 0 /\ Failed(Len(tileResults))

-----------------------------------------------------------------------------
(* crane.execute: the configuration check, the store calls and the hand-off *)
(* of the run according to the execution mode *)

Endpoint == "https://runner.test/run"

\* The crane instances: `api` tells the builder API (modes internal and
\* external) from the resource API (modes runner, workflow, http and the
\* legacy endpoint-only form); mode "none" is a missing execution config
\* and endpoint "" a missing or empty endpoint.
ExecConfigs ==
    {[api |-> "builder", mode |-> "none", endpoint |-> ""],
     [api |-> "builder", mode |-> "internal", endpoint |-> ""],
     [api |-> "builder", mode |-> "external", endpoint |-> ""],
     [api |-> "builder", mode |-> "external", endpoint |-> Endpoint],
     [api |-> "resources", mode |-> "none", endpoint |-> ""],
     [api |-> "resources", mode |-> "runner", endpoint |-> ""],
     [api |-> "resources", mode |-> "workflow", endpoint |-> ""],
     [api |-> "resources", mode |-> "http", endpoint |-> ""],
     [api |-> "resources", mode |-> "http", endpoint |-> Endpoint],
     [api |-> "resources", mode |-> "legacy", endpoint |-> ""],
     [api |-> "resources", mode |-> "legacy", endpoint |-> Endpoint]}

isRunnerMode(c) == c.mode = "runner"
isWorkflowMode(c) == c.mode = "workflow"
isHttpMode(c) == c.mode = "http" \/ c.mode = "legacy"
getEndpoint(c) == c.endpoint

ValidateConfigSkipped(c) == UNDEF

\* the two early returns of the builder API's execute
ValidateConfig(c) ==
    IF c.mode = "none"
    THEN Str(<<"No execution config provided. Set execution.mode and execution.browserbase in CraneConfig.">>)
    ELSE IF c.mode = "external" /\ c.endpoint = ""
         THEN Str(<<"External mode requires execution.endpoint in CraneConfig.">>)
         ELSE UNDEF

\* the store: the blueprint row and the row of the execution of this call
NoExecution == [status |-> "absent", result |-> UNDEF]
StoreError(text) == ErrorOf(<<text>>)

\* public.ts, mutations: each gives the new store, and the exception thrown
executionCreate(st) ==
    IF ~st.blueprint
    THEN [exc |-> StoreError("Blueprint not found"), store |-> st]
    ELSE [exc |-> NoExc, store |-> [st EXCEPT !.execution = [status |-> "pending", result |-> UNDEF]]]

executionStart(st) ==
    IF st.execution.status = "absent"
    THEN [exc |-> StoreError("Execution not found"), store |-> st]
    ELSE IF st.execution.status # "pending"
         THEN [exc |-> StoreError("Execution not pending"), store |-> st]
         ELSE [exc |-> NoExc, store |-> [st EXCEPT !.execution.status = "running"]]

executionCancel(st) ==
    IF st.execution.status \in {"pending", "running"}
    THEN [st EXCEPT !.execution =
              [status |-> "cancelled", result |-> FailureResult(Str(<<"Cancelled">>))]]
    ELSE st

\* a completion that marks the record completed whatever the result says
executionCompleteAlwaysCompleted(st, result) ==
    IF st.execution.status = "absent"
    THEN [exc |-> StoreError("Execution not found"), store |-> st]
    ELSE [exc |-> NoExc,
          store |-> [st EXCEPT !.execution = [status |-> "completed", result |-> result]]]

executionComplete(st, result) ==
    IF st.execution.status = "absent"
    THEN [exc |-> StoreError("Execution not found"), store |-> st]
    ELSE [exc |-> NoExc,
          store |-> [st EXCEPT !.execution =
                         [status |-> IF result.success THEN "completed" ELSE "failed",
                          result |-> result]]]

blueprintRemove(st) == [st EXCEPT !.blueprint = FALSE]

\* what the endpoint, the runner function, the workflow engine and the
\* internal runner may answer
Unparsable == [kind |-> "text"]
RemoteResults ==
    {RunResult(TRUE, OutputsValue(EmptyBag), UNDEF, <<>>),
     RunResult(FALSE, UNDEF, Str(<<"step failed">>), <<>>)}
HttpResponses ==
    {[ok |-> TRUE, status |-> "200", statusText |-> "OK", body |-> b] :
         b \in RemoteResults \cup {Unparsable}}
        \cup {[ok |-> FALSE, status |-> "500", statusText |-> "Internal Server Error",
               body |-> b] : b \in RemoteResults \cup {Unparsable}}
        \cup {[ok |-> FALSE, status |-> "404", statusText |-> "Not Found", body |-> Unparsable]}
FetchThrows == {ErrorOf(<<"fetch failed">>)}
InvalidUrl == ErrorOf(<<"Failed to parse URL">>)
JsonThrows == {ErrorOf(<<"Unexpected token">>)}
RunnerThrows == {ErrorOf(<<"runner failed">>), ThrownValue(Str(<<"stopped">>))}
WorkflowThrows == {ErrorOf(<<"workflow engine unavailable">>)}
WorkflowIds == {Str(<<"wf_1">>)}

Handle(result, log) == [k |-> "handle", result |-> result, exc |-> NoExc, calls |-> log]

ResponseResultTrustsBody(prefix, resp, log) ==
    IF resp.body = Unparsable THEN {Thr(e, log) : e \in JsonThrows} ELSE {Ret(resp.body, log)}

\* if (!response.ok) { ...failed result... } else response.json()
ResponseResult(prefix, resp, log) ==
    IF ~resp.ok
    THEN {Ret(FailureResult(Str(<<prefix, resp.status, " ", resp.statusText>>)), log)}
    ELSE IF resp.body = Unparsable
         THEN {Thr(e, log) : e \in JsonThrows}
         ELSE {Ret(resp.body, log)}

\* await fetch(endpoint, { method: 'POST', ... }) and what is made of the
\* response; fetch rejects on an address it cannot parse
Post(endpoint, prefix) ==
    IF endpoint = ""
    THEN {Thr(InvalidUrl, <<Call("fetch", endpoint, Threw)>>)}
    ELSE {Thr(e, <<Call("fetch", endpoint, Threw)>>) : e \in FetchThrows}
             \cup UNION {ResponseResult(prefix, r, <<Call("fetch", endpoint, r)>>) :
                             r \in HttpResponses}

executeExternal(endpoint) == Post(endpoint, "External execution failed: ")

\* the internal runner seen from execute: its result, or the exception that
\* left it (the specification Spec has its steps)
InternalOutcomes ==
    {Ret(r, <<Call("executeInternal", <<>>, r)>>) : r \in RemoteResults}
        \cup {Thr(e, <<Call("executeInternal", <<>>, Threw)>>) : e \in FactoryThrows}

\* result = await options.execution.run(ctx, blueprint, variables)
RunnerOutcomes ==
    {Ret(r, <<Call("run", <<>>, r)>>) : r \in RemoteResults}
        \cup {Thr(e, <<Call("run", <<>>, Threw)>>) : e \in RunnerThrows}

\* return { success: true, duration, outputs: { workflowId } }
WorkflowHandle(id) == [kind |-> "handle", success |-> TRUE, outputs |-> [workflowId |-> id]]

\* const workflowId = await workflowExecutor.manager.start(...); return {...}
WorkflowOutcomes ==
    {Handle(WorkflowHandle(id), <<Call("workflow.start", <<>>, id)>>) : id \in WorkflowIds}
        \cup {Thr(e, <<Call("workflow.start", <<>>, Threw)>>) : e \in WorkflowThrows}

NoModeError ==
    Str(<<"No execution config. Set execution.mode to \"runner\", \"workflow\", or \"http\".">>)

\* the body of the try block of execute
ModeOutcomes(c) ==
    IF c.api = "builder"
    THEN IF c.mode = "external" THEN executeExternal(c.endpoint) ELSE InternalOutcomes
    ELSE IF isRunnerMode(c) THEN RunnerOutcomes
         ELSE IF isWorkflowMode(c) THEN WorkflowOutcomes
              ELSE IF isHttpMode(c) THEN Post(getEndpoint(c), "Execution failed: ")
                   ELSE {Ret(FailureResult(NoModeError), <<>>)}

OnRunErrorRetry(e) == [pc |-> "run", result |-> NoResult]

\* catch (error) { result = { success: false, error: `Execution failed: ...` } }
OnRunError(e) ==
    [pc |-> "complete",
     result |-> FailureResult(Str(<<"Execution failed: ">> \o JsString(CatchMessage(e))))]

execFrame == <<inputs, sortedTiles, idx, tileResults, outputs, dispatches, raised, calls, progress,
               artifacts, closeCalls, sorted, visited, current, templateParts, interpolated,
               config, env, runs, compiled, generated, drafts>>

InitExecute ==
    /\ tiles = <<>>
    /\ variables = EmptyBag
    /\ hasResolver = FALSE
    /\ hasProgress = FALSE
    /\ hasArtifact = FALSE
    /\ variant = "internal"
    /\ IdleRunner
    /\ NoWorkings
    /\ config \in ExecConfigs
    /\ store \in {[blueprint |-> b, execution |-> NoExecution] : b \in BOOLEAN}
    /\ outbound = <<>>
    /\ env = UNDEF
    /\ runs = <<>>
    /\ compiled = NotCalled
    /\ generated = NotCalled
    /\ drafts = <<>>
    /\ pc = IF config.api = "builder" THEN "validate" ELSE "get"

\* the store call before the try block threw: execute rejects
Reject(e) == /\ escaped' = e
             /\ pc' = "rejected"

\* if (!config?.execution) return {...}; if (mode === 'external' && !endpoint) return {...}
ValidateStep ==
    /\ pc = "validate"
    /\ LET error == ValidateConfig(config)
       IN  IF error # UNDEF
           THEN runResult' = FailureResult(error) /\ pc' = "returned"
           ELSE runResult' = runResult /\ pc' = "get"
    /\ UNCHANGED <<execFrame, store, outbound, adapterMade, escaped>>

\* const blueprint = await ctx.runQuery(blueprint.get); if (!blueprint) return {...}
GetBlueprint ==
    /\ pc = "get"
    /\ IF store.blueprint
       THEN runResult' = runResult /\ pc' = "create"
       ELSE runResult' = FailureResult(Str(<<"Blueprint not found: ", "bp">>)) /\ pc' = "returned"
    /\ UNCHANGED <<execFrame, store, outbound, adapterMade, escaped>>

\* const { id: executionId } = await ctx.runMutation(execution.create, ...)
CreateExecution ==
    /\ pc = "create"
    /\ LET r == executionCreate(store)
       IN  /\ store' = r.store
           /\ IF r.exc = NoExc THEN pc' = "start" /\ escaped' = escaped ELSE Reject(r.exc)
    /\ UNCHANGED <<execFrame, outbound, adapterMade, runResult>>

\* await ctx.runMutation(execution.start, { id: executionId })
StartExecution ==
    /\ pc = "start"
    /\ LET r == executionStart(store)
       IN  /\ store' = r.store
           /\ IF r.exc = NoExc THEN pc' = "run" /\ escaped' = escaped ELSE Reject(r.exc)
    /\ UNCHANGED <<execFrame, outbound, adapterMade, runResult>>

\* try { ...the mode's branch... } catch (error) { ... }
RunMode ==
    /\ pc = "run"
    /\ \E o \in ModeOutcomes(config) :
          /\ outbound' = outbound \o o.calls
          /\ adapterMade' = (adapterMade \/ \E k \in 1..Len(o.calls) :
                                                o.calls[k].m = "executeInternal"
                                                    /\ o.calls[k].ret # Threw)
          /\ IF o.k = "throw"
             THEN /\ pc' = OnRunError(o.exc).pc
                  /\ runResult' = OnRunError(o.exc).result
             ELSE /\ pc' = IF o.k = "handle" THEN "returned" ELSE "complete"
                  /\ runResult' = o.result
    /\ UNCHANGED <<execFrame, store, escaped>>

\* await ctx.runMutation(execution.complete, { id, result }); return result
CompleteExecution ==
    /\ pc = "complete"
    /\ LET r == executionComplete(store, runResult)
       IN  /\ store' = r.store
           /\ IF r.exc = NoExc THEN pc' = "returned" /\ escaped' = escaped ELSE Reject(r.exc)
    /\ UNCHANGED <<execFrame, outbound, adapterMade, runResult>>

Executing == pc \notin {"returned", "rejected"}

\* another caller's blueprint.remove, between two steps of execute
RemoveBlueprint ==
    /\ Executing
    /\ store.blueprint
    /\ store' = blueprintRemove(store)
    /\ UNCHANGED <<execFrame, pc, outbound, adapterMade, runResult, escaped>>

\* another caller's execution.cancel, between two steps of execute
CancelExecution ==
    /\ Executing
    /\ store.execution.status \in {"pending", "running"}
    /\ store' = executionCancel(store)
    /\ UNCHANGED <<execFrame, pc, outbound, adapterMade, runResult, escaped>>

NextExecute ==
    \/ ValidateStep
    \/ GetBlueprint
    \/ CreateExecution
    \/ StartExecution
    \/ RunMode
    \/ CompleteExecution
    \/ RemoveBlueprint
    \/ CancelExecution

SpecExecute == InitExecute /\ [][NextExecute]_vars

\* no execution mode, or a delegated mode without an endpoint
BadConfig ==
    \/ config.mode = "none"
    \/ config.mode \in {"external", "http", "legacy"} /\ config.endpoint = ""

Interfered == ~store.blueprint \/ store.execution.status = "cancelled"

\* C23: with no execution mode configured, or a delegated mode without an
\* endpoint, execute hands the run to nobody: no provider is created, no
\* step is dispatched, no request is delivered (the resource API's http
\* branch tries the empty address, which fetch refuses).  When it returns,
\* it returns a result with success false and an error text.  The builder
\* API returns before it touches the store; the resource API goes through
\* its store calls first, and leaves by an exception only when one of those
\* calls threw because another operation interfered (C26).
ConfigErrorIsFailedResult ==
    BadConfig =>
        /\ ~adapterMade
        /\ dispatches = <<>>
        /\ \A k \in 1..Len(outbound) : outbound[k].m = "fetch" /\ outbound[k].ret = Threw
        /\ pc = "returned" =>
               /\ runResult.kind = "failure"
               /\ ~runResult.success
               /\ IsStr(runResult.error)
        /\ config.api = "builder" =>
               /\ pc \in {"validate", "returned"}
               /\ store.execution = NoExecution
        /\ pc = "rejected" => Interfered

\* the builder API in external mode without an endpoint, the blueprint
\* being there: the configuration error came back as a result
ConfigErrorIsFailedResultWitness ==
    /\ pc = "returned"
    /\ config = [api |-> "builder", mode |-> "external", endpoint |-> ""]
    /\ store.blueprint
    /\ runResult = FailureResult(Str(<<"External mode requires execution.endpoint in CraneConfig.">>))

Delivered == Len(outbound) = 1 /\ outbound[1].m = "fetch" /\ outbound[1].ret # Threw

StatusPrefix == IF config.api = "builder" THEN "External execution failed: " ELSE "Execution failed: "

\* C24: when execute returns after the endpoint answered, a response that
\* is not 2xx gave a result with success false whose error carries the
\* status code and text, a 2xx response whose body is a Run Result gave
\* that body unchanged, and in both cases the execution record holds the
\* returned result, with status completed or failed after its success.
DelegatedResultRecorded ==
    (pc = "returned" /\ Delivered) =>
        LET resp == outbound[1].ret
        IN  /\ ~resp.ok =>
                   runResult = FailureResult(
                       Str(<<StatusPrefix, resp.status, " ", resp.statusText>>))
            /\ (resp.ok /\ resp.body \in RemoteResults) => runResult = resp.body
            /\ store.execution.result = runResult
            /\ store.execution.status = IF runResult.success THEN "completed" ELSE "failed"

\* the endpoint answered 500 with a body that reads as a successful run:
\* the result is the failure with the status, and so is the record
DelegatedResultRecordedWitness ==
    /\ pc = "returned"
    /\ Delivered
    /\ ~outbound[1].ret.ok
    /\ outbound[1].ret.body \in RemoteResults
    /\ outbound[1].ret.body.success
    /\ ~runResult.success
    /\ store.execution.status = "failed"

ExecuteNeverRejects == pc # "rejected"

-----------------------------------------------------------------------------
(* runBlueprintDirect: two runs of it in one process, interleaved at their *)
(* awaits *)

Runs == 1..2
MaxRunTiles == 1

ModelNames == {"google/gemini-2.5-pro", "openai/gpt-4o"}
ProviderOf(modelName) == IF modelName = "google/gemini-2.5-pro" THEN "google" ELSE "openai"

\* the variable of process.env that holds the key of a provider
EnvVarOf(provider) == IF provider = "google" THEN "GEMINI_API_KEY" ELSE "OPENAI_API_KEY"
EnvVars == {"GEMINI_API_KEY", "OPENAI_API_KEY"}
DeploymentKey == Str(<<"deployment key">>)
RunKey(r) == Str(<<"key of run ">> \o JsString(Num(r)))

\* the frame of a run: its configuration (model name and API key), the
\* key its process had for its provider when it was called, its locals
\* (stagehand, tileResults, outputs) and the key its provider works with
Frame(r, modelName, apiKey) ==
    [pc |-> "import", modelName |-> modelName, apiKey |-> apiKey,
     inherited |-> env[EnvVarOf(ProviderOf(modelName))],
     stagehand |-> 0, key |-> NotCalled, readsKey |-> "never",
     tileResults |-> <<>>, outputs |-> EmptyBag]

InitConcurrent ==
    /\ tiles = <<>>
    /\ variables = EmptyBag
    /\ hasResolver = FALSE
    /\ hasProgress = FALSE
    /\ hasArtifact = FALSE
    /\ variant = "internal"
    /\ IdleRunner
    /\ NoWorkings
    /\ config = UNDEF
    /\ store = UNDEF
    /\ outbound = <<>>
    /\ compiled = NotCalled
    /\ generated = NotCalled
    /\ drafts = <<>>
    /\ pc = "concurrent"
    /\ env \in [EnvVars -> {UNDEF, DeploymentKey}]
    /\ \E names \in [Runs -> ModelNames], keyed \in [Runs -> BOOLEAN] :
          runs = [r \in Runs |->
                     Frame(r, names[r], IF keyed[r] THEN RunKey(r) ELSE UNDEF)]

concurrentFrame == <<inputs, pc, sortedTiles, idx, tileResults, outputs, dispatches, raised,
                     progress, artifacts, closeCalls, adapterMade, runResult, escaped, sorted,
                     visited, current, templateParts, interpolated, config, store, outbound,
                     compiled, generated, drafts>>

\* if (modelApiKey) { process.env.<PROVIDER>_API_KEY = modelApiKey }
WriteEnv(e, modelName, apiKey) ==
    IF Truthy(apiKey) THEN [e EXCEPT ![EnvVarOf(ProviderOf(modelName))] = apiKey] ELSE e

\* const { Stagehand } = await import("@browserbasehq/stagehand")
Import(r) ==
    /\ runs[r].pc = "import"
    /\ runs' = [runs EXCEPT ![r].pc = "configure"]
    /\ UNCHANGED <<concurrentFrame, env, calls>>

\* One synchronous stretch: the key is written to process.env and the
\* provider is constructed from the model name alone.  The provider takes
\* the key of its model from process.env, in its constructor or later, in
\* init(); which of the two is the library's choice.
Configure(r) ==
    /\ runs[r].pc = "configure"
    /\ env' = WriteEnv(env, runs[r].modelName, runs[r].apiKey)
    /\ \E when \in {"constructor", "init"} :
          runs' = [runs EXCEPT
                      ![r].pc = "init",
                      ![r].stagehand = 1 + Cardinality({q \in Runs : runs[q].stagehand # 0}),
                      ![r].readsKey = when,
                      ![r].key = IF when = "constructor"
                                 THEN env'[EnvVarOf(ProviderOf(runs[r].modelName))]
                                 ELSE NotCalled]
    /\ UNCHANGED <<concurrentFrame, calls>>

\* await stagehand.init()
InitProvider(r) ==
    /\ runs[r].pc = "init"
    /\ runs' = [runs EXCEPT
                    ![r].pc = "loop",
                    ![r].key = IF runs[r].readsKey = "init"
                               THEN env[EnvVarOf(ProviderOf(runs[r].modelName))]
                               ELSE @]
    /\ UNCHANGED <<concurrentFrame, env, calls>>

\* one iteration of the loop of the run: a step that acts through the
\* run's own adapter, and its result pushed on the run's own list
RunTile(r) ==
    /\ runs[r].pc = "loop"
    /\ Len(runs[r].tileResults) < MaxRunTiles
    /\ \E a \in RunAdapter.actReturns :
          /\ calls' = Append(calls, [run |-> r, stagehand |-> runs[r].stagehand, m |-> "act",
                                     key |-> runs[r].key, ret |-> a])
          /\ runs' = [runs EXCEPT ![r].tileResults =
                          Append(@, TileResult(TileIds[Len(@) + 1],
                                               IF a.success THEN "completed" ELSE "failed",
                                               a, IF a.success THEN UNDEF ELSE a.message))]
    /\ UNCHANGED <<concurrentFrame, env>>

\* finally { await adapter.close().catch(() => {}) }
CloseRun(r) ==
    /\ runs[r].pc = "loop"
    /\ \/ Len(runs[r].tileResults) = MaxRunTiles
       \/ /\ Len(runs[r].tileResults) > 0
          /\ runs[r].tileResults[Len(runs[r].tileResults)].status = "failed"
    /\ calls' = Append(calls, [run |-> r, stagehand |-> runs[r].stagehand, m |-> "close",
                               key |-> runs[r].key, ret |-> UNDEF])
    /\ runs' = [runs EXCEPT ![r].pc = "closed"]
    /\ UNCHANGED <<concurrentFrame, env>>

NextConcurrent ==
    \E r \in Runs :
        \/ Import(r)
        \/ Configure(r)
        \/ InitProvider(r)
        \/ RunTile(r)
        \/ CloseRun(r)

SpecConcurrent == InitConcurrent /\ [][NextConcurrent]_vars

\* the key a run's configuration gives its provider: the key of its own
\* configuration or, without one, the key the process was set up with
OwnKey(r) == IF Truthy(runs[r].apiKey) THEN runs[r].apiKey ELSE runs[r].inherited

\* C27 (as stated): runs that proceed concurrently share no mutable state.
\* Each run has one provider instance of its own, every provider call of a
\* run goes through the instance of that run and lands on the result list
\* of that run, and the model API key the provider of a run works with is
\* the one its own configuration gives it, whatever the other run does.
RunsShareNothing ==
    /\ \A r, q \in Runs :
           (r # q /\ runs[r].stagehand # 0) => runs[q].stagehand # runs[r].stagehand
    /\ \A k \in 1..Len(calls) : calls[k].stagehand = runs[calls[k].run].stagehand
    /\ \A r \in Runs :
           Len(runs[r].tileResults) =
               Cardinality({k \in 1..Len(calls) : calls[k].run = r /\ calls[k].m = "act"})
    /\ \A r \in Runs : runs[r].key # NotCalled => runs[r].key = OwnKey(r)

-----------------------------------------------------------------------------
(* compiler.ts: compile(blueprint), the code generator *)

MaxCompileLen == 3

\* the names matched by template.matchAll(/\{\{(\w+)\}\}/g), from position i
RECURSIVE ExtractFrom(_, _)
ExtractFrom(s, i) ==
    IF i > Len(s) THEN {}
    ELSE IF MatchAt(s, i)
         THEN LET e == WordEnd(s, i + 2)
              IN  {Str(SubSeq(s, i + 2, e))} \cup ExtractFrom(s, e + 3)
         ELSE ExtractFrom(s, i + 1)

\* extractVariables(template, vars): the names it adds to vars
extractVariables(template) == ExtractFrom(template.s, 1)

\* the while loop of the compiler's sortTiles; cur = 0 stands for undefined
RECURSIVE CompilerWalk(_, _, _, _)
CompilerWalk(ts, cur, out, vis) ==
    IF cur = 0 THEN out
    ELSE IF ts[cur].id \in vis THEN out
         ELSE IF ts[cur].connections.output = NULL
              THEN Append(out, ts[cur])
              ELSE CompilerWalk(ts, FindByIdFrom(ts, ts[cur].connections.output, 1),
                                Append(out, ts[cur]), vis \cup {ts[cur].id})

compilerSortTilesArrayOrder(ts) == ts

\* compiler.ts has its own sortTiles
compilerSortTiles(ts) ==
    LET entries == {k \in 1..Len(ts) : ts[k].connections.input = NULL}
    IN  IF entries = {} THEN ts
        ELSE CompilerWalk(ts, CHOOSE k \in entries : \A j \in entries : k <= j, <<>>, {})

OptionalNames(value) == IF Truthy(value) THEN extractVariables(value) ELSE {}
VariableName(variable) == IF Truthy(variable) THEN {variable} ELSE {}

FieldInputsPlaceholdersOnly(field) ==
    extractVariables(field.instruction) \cup OptionalNames(field.value)

\* generateForm, per field: what it adds to ctx.inputVars
FieldInputs(field) ==
    extractVariables(field.instruction) \cup OptionalNames(field.value)
        \cup VariableName(field.variable)

\* generateTileCode(tile, ctx): what the generator of the tile's kind adds
\* to ctx.inputVars
TileInputs(tile) ==
    CASE tile.type = "NAVIGATE" -> extractVariables(P(tile, "url"))
      [] tile.type = "CLICK" -> extractVariables(P(tile, "instruction"))
      [] tile.type = "TYPE" ->
             extractVariables(P(tile, "instruction")) \cup OptionalNames(P(tile, "value"))
                 \cup VariableName(P(tile, "variable"))
      [] tile.type = "EXTRACT" -> extractVariables(P(tile, "instruction"))
      [] tile.type = "SELECT" ->
             extractVariables(P(tile, "instruction")) \cup extractVariables(P(tile, "value"))
      [] tile.type = "FORM" ->
             UNION {FieldInputs(P(tile, "fields").items[k]) :
                        k \in 1..Len(P(tile, "fields").items)}
      [] OTHER -> {}

\* generateExtract: ctx.outputVars.add(outputVariable)
TileOutputs(tile) == IF tile.type = "EXTRACT" THEN {P(tile, "outputVariable")} ELSE {}

\* what is emitted for a tile: the block of its kind, or the comment
\* `// Unknown tile type` of the default branch
TileCode(tile) ==
    [tileId |-> tile.id,
     emits |-> IF tile.type \in {"NAVIGATE", "CLICK", "TYPE", "AUTH", "EXTRACT", "SCREENSHOT",
                                 "WAIT", "SELECT", "FORM"}
               THEN tile.type ELSE "comment"]

\* compile(blueprint): the blocks in the order of sortedTiles.map(...), and
\* the two name sets (Array.from of a Set: no duplicates)
compile(ts) ==
    LET sortedCompilerTiles == compilerSortTiles(ts)
        n == Len(sortedCompilerTiles)
    IN  [code |-> [k \in 1..n |-> TileCode(sortedCompilerTiles[k])],
         inputVariables |-> UNION {TileInputs(sortedCompilerTiles[k]) : k \in 1..n},
         outputVariables |-> UNION {TileOutputs(sortedCompilerTiles[k]) : k \in 1..n}]

sX == <<"x">>
sY == <<"y">>
sZ == <<"z">>

\* the tile shapes given to the compiler
CompileShapes == <<
    [type |-> "NAVIGATE", parameters |-> [url |-> Str(Placeholder(sW))]],
    [type |-> "CLICK", parameters |-> [instruction |-> Str(sInstr)]],
    [type |-> "TYPE", parameters |-> [instruction |-> Str(<<"g">>), variable |-> Str(sX)]],
    [type |-> "TYPE", parameters |-> [instruction |-> Str(<<"g">>),
                                      value |-> Str(Placeholder(sW) \o Placeholder(sV))]],
    [type |-> "EXTRACT", parameters |-> [instruction |-> Str(sInstr), outputVariable |-> Str(sY)]],
    [type |-> "EXTRACT", parameters |-> [instruction |-> Str(<<"g">>)]],
    [type |-> "FORM", parameters |-> [fields |-> List(<<Field(Str(sInstr), Str(Placeholder(sW)), UNDEF),
                                                        Field(Str(<<"g">>), UNDEF, Str(sX))>>)]],
    [type |-> "HOVER", parameters |-> [instruction |-> Str(Placeholder(sZ))]] >>

\* the wirings of the blueprints that are run, with two more: "fork" has
\* two tiles without a predecessor, "loop" a chain whose last tile points
\* back into it
CompileWirings == Wirings \cup {"fork", "loop"}

CompileInput(w, i, n) ==
    CASE w = "fork" -> IF i <= 2 THEN NULL ELSE TileIds[i - 1]
      [] w = "loop" -> IF i = 1 THEN NULL ELSE TileIds[i - 1]
      [] OTHER -> WiredInput(w, i, n)

CompileOutput(w, i, n) ==
    CASE w = "fork" -> IF i = n THEN NULL ELSE TileIds[i + 1]
      [] w = "loop" -> IF i = n THEN TileIds[IF n > 1 THEN 2 ELSE 1] ELSE TileIds[i + 1]
      [] OTHER -> WiredOutput(w, i, n)

InitCompile ==
    /\ \E n \in 0..MaxCompileLen :
          \E shapes \in [1..n -> 1..Len(CompileShapes)], w \in CompileWirings :
             tiles = [i \in 1..n |->
                         Tile(TileIds[i], CompileShapes[shapes[i]].type,
                              CompileShapes[shapes[i]].parameters,
                              CompileInput(w, i, n), CompileOutput(w, i, n))]
    /\ variables = EmptyBag
    /\ hasResolver = FALSE
    /\ hasProgress = FALSE
    /\ hasArtifact = FALSE
    /\ variant = "internal"
    /\ pc = "blueprint"
    /\ Idle

\* one call of compile(blueprint)
DoCompile ==
    /\ pc = "blueprint"
    /\ compiled' = compile(tiles)
    /\ pc' = "compiled"
    /\ UNCHANGED <<inputs, sortedTiles, idx, tileResults, outputs, dispatches, raised, calls,
                   progress, artifacts, closeCalls, adapterMade, runResult, escaped, sorted,
                   visited, current, templateParts, interpolated, config, store, outbound,
                   env, runs, generated, drafts>>

NextCompile == DoCompile

SpecCompile == InitCompile /\ [][NextCompile]_vars

IdSeq(seq) == [k \in 1..Len(seq) |-> seq[k].id]

\* C29: the blocks that compile emits are, in order, those of the tiles in
\* the order in which the interpreter dispatches them, sortTiles(tiles) of
\* the runner: one block per ordered tile, none for any other tile; this
\* for chains, lists with no entry, with several entries, with a cycle and
\* with a successor that names no tile.
CompileOrderIsRunOrder ==
    pc = "compiled" =>
        [k \in 1..Len(compiled.code) |-> compiled.code[k].tileId] = IdSeq(sortTiles(tiles))

\* three tiles, wired last to first: three blocks, in the order t3, t2, t1
CompileOrderIsRunOrderWitness ==
    /\ pc = "compiled"
    /\ Len(tiles) = 3
    /\ tiles[3].connections.input = NULL
    /\ tiles[1].connections.output = NULL
    /\ Len(compiled.code) = 3
    /\ compiled.code[1].tileId = tiles[3].id
    /\ compiled.code[3].tileId = tiles[1].id

CompileNames == {sV, sW, sX, sY, sZ}

\* {{name}} is written somewhere in the text
Occurs(name, text) ==
    /\ IsStr(text)
    /\ \E i \in 1..Len(text.s) :
           /\ i + Len(name) + 3 <= Len(text.s)
           /\ SubSeq(text.s, i, i + Len(name) + 3) = Placeholder(name)

\* the texts of a step: its parameters and, for a form, those of its fields
TextsOf(tile) ==
    {tile.parameters[k] : k \in DOMAIN tile.parameters}
        \cup (IF P(tile, "fields").t = "list"
              THEN UNION {{P(tile, "fields").items[k].instruction,
                           P(tile, "fields").items[k].value} :
                              k \in 1..Len(P(tile, "fields").items)}
              ELSE {})

\* the names a step reads from the bag directly: `variable` of a TYPE step
\* and of the fields of a FORM step
VariablesOf(tile) ==
    {v \in (IF tile.type = "TYPE" THEN {P(tile, "variable")} ELSE {})
            \cup (IF tile.type = "FORM"
                  THEN {P(tile, "fields").items[k].variable :
                            k \in 1..Len(P(tile, "fields").items)}
                  ELSE {}) : Truthy(v)}

PlaceholdersOf(steps) ==
    {Str(name) : name \in {n \in CompileNames :
                               \E k \in 1..Len(steps) :
                                   \E text \in TextsOf(steps[k]) : Occurs(n, text)}}

-----------------------------------------------------------------------------
(* compiler.ts: what the generated function does when it is run, block by *)
(* block, next to the interpreter on the same blueprint *)

\* escapeString(str), character by character
RECURSIVE escapeString(_)
escapeString(str) ==
    IF str = <<>> THEN <<>>
    ELSE (CASE Head(str) = "\\" -> <<"\\", "\\">>
            [] Head(str) = "\"" -> <<"\\", "\"">>
            [] Head(str) = "\n" -> <<"\\", "n">>
            [] Head(str) = "\r" -> <<"\\", "r">>
            [] Head(str) = "\t" -> <<"\\", "t">>
            [] OTHER -> <<Head(str)>>) \o escapeString(Tail(str))

\* the string that a double-quoted literal with the given body denotes when
\* the generated source is run
RECURSIVE LiteralValue(_)
LiteralValue(src) ==
    IF src = <<>> THEN <<>>
    ELSE IF Head(src) = "\\" /\ Len(src) >= 2
         THEN (CASE src[2] = "n" -> <<"\n">>
                 [] src[2] = "r" -> <<"\r">>
                 [] src[2] = "t" -> <<"\t">>
                 [] OTHER -> <<src[2]>>) \o LiteralValue(Tail(Tail(src)))
         ELSE <<Head(src)>> \o LiteralValue(Tail(src))

\* interpolate("<escaped template>", variables) in the generated source
GenInterpolate(template, callerVars) == interpolate(LiteralValue(escapeString(template.s)), callerVars)

\* const result = await adapter.act(text); if (!result.success) throw new Error(...)
GenAct(adapter, text, kind, before, outs) ==
    {IF r.success THEN Ret(outs, Append(before, Call("act", text, r)))
     ELSE Thr(ErrorOf(<<kind, " failed: ">> \o JsString(r.message)),
              Append(before, Call("act", text, r))) : r \in adapter.actReturns}
        \cup {Thr(e, Append(before, Call("act", text, Threw))) : e \in adapter.throws}

\* await adapter.navigate(interpolate("url", variables), { waitUntil, timeout }?)
GenNavigate(tile, adapter, callerVars, outs) ==
    LET url == GenInterpolate(P(tile, "url"), callerVars)
        opts == IF Truthy(P(tile, "waitUntil")) \/ Truthy(P(tile, "timeout"))
                THEN [waitUntil |-> P(tile, "waitUntil"), timeout |-> P(tile, "timeout")]
                ELSE UNDEF
        cs(ret) == <<Call("navigate", [url |-> url, opts |-> opts], ret)>>
    IN  {Ret(outs, cs(UNDEF))} \cup {Thr(e, cs(Threw)) : e \in adapter.throws}

\* the credentialField block of generateType
GenTypeFromCredential(tile, adapter, callerVars, credentials, outs) ==
    LET instruction == GenInterpolate(P(tile, "instruction"), callerVars)
        c1(ret) == <<Call("currentUrl", <<>>, ret)>>
        afterUrl(u) ==
            IF ~ValidUrl(u) THEN {Thr(TypeError, c1(u))}
            ELSE LET domain == Hostname(u)
                     c2(ret) == Append(c1(u), Call("credentials", <<domain>>, ret))
                     noCred(cs) == Thr(ErrorOf(<<"No credentials for domain: ", domain>>), cs)
                     afterCred(cred) ==
                         IF cred = JSNULL THEN {noCred(c2(cred))}
                         ELSE GenAct(adapter,
                                  TypeText(CredField(cred, JsString(P(tile, "credentialField"))),
                                           instruction), "TYPE", c2(cred), outs)
                 IN  IF ~credentials THEN {noCred(c1(u))}
                     ELSE UNION {afterCred(cred) : cred \in ResolverReturns}
                              \cup {Thr(e, c2(Threw)) : e \in ResolverThrows}
    IN  UNION {afterUrl(u) : u \in adapter.urls} \cup {Thr(e, c1(Threw)) : e \in adapter.throws}

\* the block chosen by generateType: credentialField, then variable, then
\* value, then the empty string
GenType(tile, adapter, callerVars, credentials, outs) ==
    LET instruction == GenInterpolate(P(tile, "instruction"), callerVars)
    IN  IF Truthy(P(tile, "credentialField"))
        THEN GenTypeFromCredential(tile, adapter, callerVars, credentials, outs)
        ELSE IF Truthy(P(tile, "variable"))
        THEN GenAct(adapter,
                 TypeText(JsString(Coalesce(VarGet(callerVars, JsString(P(tile, "variable"))),
                                            Str(<<>>))), instruction), "TYPE", <<>>, outs)
        ELSE IF Truthy(P(tile, "value"))
        THEN GenAct(adapter, TypeText(GenInterpolate(P(tile, "value"), callerVars), instruction),
                    "TYPE", <<>>, outs)
        ELSE GenAct(adapter, TypeText(<<>>, instruction), "TYPE", <<>>, outs)

\* outputs["name"] = await adapter.extract(interpolate("instruction", variables), schema?)
GenExtract(tile, adapter, callerVars, outs) ==
    LET instruction == GenInterpolate(P(tile, "instruction"), callerVars)
        name == LiteralValue(escapeString(P(tile, "outputVariable").s))
        schema == IF Truthy(P(tile, "schema")) THEN P(tile, "schema") ELSE UNDEF
        cs(ret) == <<Call("extract", [instruction |-> instruction, schema |-> schema], ret)>>
    IN  {Ret(Spread(outs, name :> extracted), cs(extracted)) : extracted \in adapter.payloads}
            \cup {Thr(e, cs(Threw)) : e \in adapter.throws}

\* await adapter.screenshot({ fullPage: <fullPage ?? false> })
GenScreenshot(tile, adapter, outs) ==
    LET cs(ret) == <<Call("screenshot", [fullPage |-> Coalesce(P(tile, "fullPage"), Bool(FALSE))],
                          ret)>>
    IN  {Ret(outs, cs(data)) : data \in adapter.shots}
            \cup {Thr(e, cs(Threw)) : e \in adapter.throws}

\* the acts of generateAuth after the credential was found
RECURSIVE GenActs(_, _, _, _, _)
GenActs(adapter, texts, kinds, before, outs) ==
    IF texts = <<>> THEN {Ret(outs, before)}
    ELSE UNION {IF o.k = "throw" THEN {o}
                ELSE GenActs(adapter, Tail(texts), Tail(kinds), o.calls, outs) :
                    o \in GenAct(adapter, Head(texts), Head(kinds), before, outs)}

\* the block of generateAuth
GenAuth(adapter, credentials, outs) ==
    LET c1(ret) == <<Call("currentUrl", <<>>, ret)>>
        afterUrl(u) ==
            IF ~ValidUrl(u) THEN {Thr(TypeError, c1(u))}
            ELSE LET domain == Hostname(u)
                     c2(ret) == Append(c1(u), Call("credentials", <<domain>>, ret))
                     afterCred(cred) ==
                         IF cred = JSNULL
                         THEN {Thr(ErrorOf(<<"No credentials for domain: ", domain>>), c2(cred))}
                         ELSE GenActs(adapter,
                                  <<TypeText(cred.username, <<"the username or email field">>),
                                    TypeText(cred.password, <<"the password field">>),
                                    <<"Click the login or sign in button">>>>,
                                  <<"AUTH username", "AUTH password", "AUTH submit">>,
                                  c2(cred), outs)
                 IN  UNION {afterCred(cred) : cred \in ResolverReturns}
                         \cup {Thr(e, c2(Threw)) : e \in ResolverThrows}
    IN  IF ~credentials THEN {Thr(ErrorOf(<<"AUTH tile requires credential resolver">>), <<>>)}
        ELSE UNION {afterUrl(u) : u \in adapter.urls}
                 \cup {Thr(e, c1(Threw)) : e \in adapter.throws}

\* the value expression chosen by generateForm for a field
GenFieldValue(field, callerVars) ==
    IF Truthy(field.value) THEN GenInterpolate(field.value, callerVars)
    ELSE IF Truthy(field.variable)
         THEN JsString(Coalesce(VarGet(callerVars, JsString(field.variable)), Str(<<>>)))
         ELSE <<>>

\* the block of generateForm: one act per field, in the order of the fields
GenForm(tile, adapter, callerVars, outs) ==
    LET fields == P(tile, "fields").items
    IN  GenActs(adapter,
                [k \in 1..Len(fields) |->
                    TypeText(GenFieldValue(fields[k], callerVars),
                             GenInterpolate(fields[k].instruction, callerVars))],
                [k \in 1..Len(fields) |-> "FORM field"], <<>>, outs)

\* the block of the generated function for one tile, run with the
\* function's parameters `variables` and `credentials` and its local `outputs`
GenBlock(tile, adapter, callerVars, credentials, outs) ==
    CASE tile.type = "NAVIGATE" -> GenNavigate(tile, adapter, callerVars, outs)
      [] tile.type = "CLICK" ->
             GenAct(adapter, <<"Click on ">> \o GenInterpolate(P(tile, "instruction"), callerVars),
                    "CLICK", <<>>, outs)
      [] tile.type = "TYPE" -> GenType(tile, adapter, callerVars, credentials, outs)
      [] tile.type = "EXTRACT" -> GenExtract(tile, adapter, callerVars, outs)
      [] tile.type = "SCREENSHOT" -> GenScreenshot(tile, adapter, outs)
      [] tile.type = "SELECT" ->
             GenAct(adapter, <<"Select \"">> \o GenInterpolate(P(tile, "value"), callerVars)
                                 \o <<"\" from ">>
                                 \o GenInterpolate(P(tile, "instruction"), callerVars),
                    "SELECT", <<>>, outs)
      [] tile.type = "WAIT" -> {Ret(outs, <<Call("setTimeout", P(tile, "ms"), UNDEF)>>)}
      [] tile.type = "AUTH" -> GenAuth(adapter, credentials, outs)
      [] tile.type = "FORM" -> GenForm(tile, adapter, callerVars, outs)
      [] OTHER -> {Ret(outs, <<>>)}

\* what a call asks of the provider: the method and the text it is given
TextOf(c) ==
    CASE c.m = "navigate" -> c.arg.url
      [] c.m = "extract" -> c.arg.instruction
      [] OTHER -> c.arg
Request(c) == [m |-> c.m, text |-> TextOf(c)]

\* the provider and the resolver answer the two runs alike: the same
\* request gets the same answer
SameAnswers(a, b) ==
    \A j \in 1..Len(a), k \in 1..Len(b) : Request(a[j]) = Request(b[k]) => a[j].ret = b[k].ret

\* the TYPE tiles with every combination of value, variable and credentialField
TypeCombo(hasValue, hasVariable, hasField) ==
    [instruction |-> Str(<<"f">>)]
        @@ (IF hasValue THEN [value |-> Str(<<"lit ">> \o Placeholder(sV))] ELSE EmptyBag)
        @@ (IF hasVariable THEN [variable |-> Str(sW)] ELSE EmptyBag)
        @@ (IF hasField
            THEN [credentialField |-> Str(<<"p", "a", "s", "s", "w", "o", "r", "d">>)]
            ELSE EmptyBag)

NoFrame == [outputs |-> EmptyBag, calls |-> <<>>, thrown |-> NoExc]

InitGenerated ==
    /\ \/ /\ tiles \in RunBlueprints({"chain"}, KnownShapes)
          /\ variables \in RunVariables
          /\ hasResolver = FALSE
       \/ /\ \E a, b, c \in BOOLEAN :
                tiles = <<Tile(TileIds[1], "TYPE", TypeCombo(a, b, c), NULL, NULL)>>
          /\ variables \in TileVariables
          /\ hasResolver \in BOOLEAN
    /\ hasProgress = FALSE
    /\ hasArtifact = FALSE
    /\ variant = "internal"
    /\ pc = "source"
    /\ Idle

generatedFrame == <<inputs, dispatches, raised, progress, artifacts, closeCalls, adapterMade,
                    runResult, escaped, sorted, visited, current, templateParts, interpolated,
                    config, store, outbound, env, runs, drafts>>

\* compile(blueprint) for the one run, sortTiles(blueprint.tiles) for the other
Prepare ==
    /\ pc = "source"
    /\ compiled' = compile(tiles)
    /\ sortedTiles' = sortTiles(tiles)
    /\ generated' = NoFrame
    /\ pc' = "blocks"
    /\ UNCHANGED <<generatedFrame, idx, tileResults, outputs, calls>>

\* the next block of the generated function and the next iteration of the
\* interpreter's loop, against a provider that answers both alike
StepBoth ==
    /\ pc = "blocks"
    /\ idx < Len(sortedTiles)
    /\ idx < Len(compiled.code)
    /\ LET tile == sortedTiles[idx + 1]
           block == tiles[FindByIdFrom(tiles, compiled.code[idx + 1].tileId, 1)]
       IN  \E oi \in executeTile(tile, RunAdapter, StepContext(variables, outputs), hasResolver),
              og \in GenBlock(block, RunAdapter, variables, hasResolver, generated.outputs) :
              /\ SameAnswers(oi.calls, og.calls)
              /\ idx' = idx + 1
              /\ calls' = calls \o Tagged(idx + 1, oi.calls)
              /\ tileResults' = Append(tileResults, oi.result)
              /\ outputs' = StoreOutput(tile, oi.result, outputs)
              /\ generated' = [outputs |-> IF og.k = "throw" THEN generated.outputs ELSE og.result,
                               calls |-> generated.calls \o Tagged(idx + 1, og.calls),
                               thrown |-> IF og.k = "throw" THEN og.exc ELSE NoExc]
              /\ pc' = IF og.k = "throw" \/ oi.result.status = "failed" THEN "ended" ELSE "blocks"
    /\ UNCHANGED <<generatedFrame, sortedTiles, compiled>>

\* both runs are through
EndBoth ==
    /\ pc = "blocks"
    /\ idx = Len(sortedTiles)
    /\ pc' = "ended"
    /\ UNCHANGED <<generatedFrame, sortedTiles, compiled, idx, tileResults, outputs, calls,
                   generated>>

NextGenerated == Prepare \/ StepBoth \/ EndBoth

SpecGenerated == InitGenerated /\ [][NextGenerated]_vars

CallsOf(log, i) == SelectSeq(log, LAMBDA c : c.tile = i)
TextsSent(log, i) == [k \in 1..Len(CallsOf(log, i)) |-> Request(CallsOf(log, i)[k])]

\* the step reads the captured output named `name` through a placeholder
ReadsOutput(tile, name) == \E text \in TextsOf(tile) : Occurs(name, text)

\* C31 (as stated): after an EXTRACT step has stored its payload under v,
\* every later step that has {{v}} in a parameter sends the provider the
\* same requests in the generated function as in the interpreted run of
\* the same blueprint, with the same variables and provider answers.
GeneratedReadsOutputs ==
    \A i \in 1..idx :
        (/\ pc \in {"blocks", "ended"}
         /\ generated # NotCalled
         /\ \E j \in 1..(i - 1) :
                /\ sortedTiles[j].type = "EXTRACT"
                /\ Truthy(P(sortedTiles[j], "outputVariable"))
                /\ ReadsOutput(sortedTiles[i], JsString(P(sortedTiles[j], "outputVariable"))))
            => TextsSent(generated.calls, i) = TextsSent(calls, i)

\* the acts of step i: the texts typed
ActTexts(log, i) == SelectSeq(TextsSent(log, i), LAMBDA q : q.m = "act")

\* C32 (as stated): for every combination of value, variable and
\* credentialField, a TYPE step types the same text in the interpreter and
\* in the generated function.
TypeSameValue ==
    (pc = "ended" /\ generated # NotCalled /\ Len(tiles) = 1 /\ tiles[1].type = "TYPE")
        => ActTexts(generated.calls, 1) = ActTexts(calls, 1)

-----------------------------------------------------------------------------
(* executions: the component's mutations and the resource's cancel, applied
   in any order to one record *)

MaxOps == 4

TerminalStatuses == {"completed", "failed", "cancelled"}

\* one entry of the history: the operation, what it threw, the record before
\* and after, and the status the onCancel hook was shown
ExecutionOp(op, exc, before, after, shown) ==
    [op |-> op, exc |-> exc, before |-> before, after |-> after, shown |-> shown]

HookThrows == ErrorOf(<<"hook failed">>)

\* createExecutionResource(...).cancel: executionGet, then executionComplete
\* with { success: false, error: reason ?? "Cancelled by user" }, then
\* hooks.onCancel with { ...doc, status: "cancelled" }.  A handler that throws
\* commits nothing: the mutation is one transaction.
resourceCancel(st, hooked, hookThrows) ==
    IF st.execution.status = "absent"
    THEN [exc |-> StoreError("Execution not found"), store |-> st, shown |-> NULL]
    ELSE LET done == executionComplete(st, FailureResult(Str(<<"Cancelled by user">>)))
         IN  IF ~hooked
             THEN [exc |-> NoExc, store |-> done.store, shown |-> NULL]
             ELSE IF hookThrows
                  THEN [exc |-> HookThrows, store |-> st, shown |-> "cancelled"]
                  ELSE [exc |-> NoExc, store |-> done.store, shown |-> "cancelled"]

InitExecutions ==
    /\ tiles = <<>>
    /\ variables = EmptyBag
    /\ hasResolver = FALSE
    /\ hasProgress = FALSE
    /\ hasArtifact = FALSE
    /\ variant = "internal"
    /\ IdleRunner
    /\ NoWorkings
    /\ config \in {[onCancel |-> b] : b \in BOOLEAN}
    /\ store \in {[blueprint |-> b, execution |-> NoExecution] : b \in BOOLEAN}
    /\ outbound = <<>>
    /\ env = UNDEF
    /\ runs = <<>>
    /\ compiled = NotCalled
    /\ generated = NotCalled
    /\ drafts = <<>>
    /\ pc = "executions"

executionsFrame == <<inputs, sortedTiles, idx, tileResults, outputs, dispatches, raised, calls,
                     progress, artifacts, closeCalls, adapterMade, runResult, escaped, sorted,
                     visited, current, templateParts, interpolated, config, env, runs, compiled,
                     generated, drafts, pc>>

Applied(op, o, shown) ==
    /\ Len(outbound) < MaxOps
    /\ store' = o.store
    /\ outbound' = Append(outbound, ExecutionOp(op, o.exc, store.execution, o.store.execution, shown))
    /\ UNCHANGED executionsFrame

\* executionCreate, for the one record followed
ExecutionsCreate ==
    /\ pc = "executions"
    /\ store.execution.status = "absent"
    /\ Applied("create", executionCreate(store), NULL)

ExecutionsStart ==
    /\ pc = "executions"
    /\ Applied("start", executionStart(store), NULL)

ExecutionsComplete ==
    /\ pc = "executions"
    /\ \E result \in RemoteResults :
           Applied("complete", executionComplete(store, result), NULL)

\* the component's own cancel
ExecutionsCancel ==
    /\ pc = "executions"
    /\ Applied("cancel", [exc |-> NoExc, store |-> executionCancel(store)], NULL)

\* the resource's cancel
ResourceCancel ==
    /\ pc = "executions"
    /\ \E hookThrows \in BOOLEAN :
           LET o == resourceCancel(store, config.onCancel, hookThrows)
           IN  /\ (hookThrows => config.onCancel /\ store.execution.status # "absent")
               /\ Applied("resource cancel", o, o.shown)

NextExecutions ==
    \/ ExecutionsCreate
    \/ ExecutionsStart
    \/ ExecutionsComplete
    \/ ExecutionsCancel
    \/ ResourceCancel

SpecExecutions == InitExecutions /\ [][NextExecutions]_vars

HasResult(e) == "success" \in DOMAIN e.result

\* C33 (as stated): the status of a record only moves forward along
\* pending -> running -> completed | failed | cancelled, a start that does
\* not find the record pending throws and leaves it as it was, and a
\* completed, failed or cancelled record keeps its status and its result
\* under every further start, complete and cancel.
StatusOnlyForward ==
    [][LET a == store.execution
           b == store'.execution
       IN  /\ a.status \in TerminalStatuses => b = a
           /\ a # b => <<a.status, b.status>> \in
                  ({"absent"} \X {"pending"})
                      \cup ({"pending"} \X ({"running"} \cup TerminalStatuses))
                      \cup ({"running"} \X TerminalStatuses)
           /\ (Len(outbound') > Len(outbound)
                   /\ outbound'[Len(outbound')].op = "start" /\ a.status # "pending")
                 => (b = a /\ outbound'[Len(outbound')].exc # NoExc)]_vars

\* C34 (as stated): when the resource's cancel returns for a record that was
\* pending or running, the stored record has status cancelled, the status
\* the onCancel hook was shown.
CancelStoresCancelled ==
    \A i \in 1..Len(outbound) :
        (outbound[i].op = "resource cancel" /\ outbound[i].exc = NoExc
             /\ outbound[i].before.status \in {"pending", "running"})
            => /\ outbound[i].after.status = "cancelled"
               /\ outbound[i].shown \in {NULL, outbound[i].after.status}

\* C38: the stored status agrees with the stored result after any sequence
\* of create, start, complete and cancel: completed goes with success true,
\* failed and cancelled with success false, pending and running with no
\* result.
StatusAgreesWithResult ==
    pc = "executions" =>
        LET e == store.execution
        IN  /\ e.status = "completed" => (HasResult(e) /\ e.result.success)
            /\ e.status \in {"failed", "cancelled"} => (HasResult(e) /\ ~e.result.success)
            /\ e.status \in {"pending", "running"} => e.result = UNDEF

\* a record that has been cancelled and completed afterwards
StatusAgreesWithResultWitness ==
    /\ pc = "executions"
    /\ store.execution.status = "completed"
    /\ \E i, j \in 1..Len(outbound) :
           /\ i < j
           /\ outbound[i].op = "cancel" /\ outbound[i].after.status = "cancelled"
           /\ outbound[j].op = "complete" /\ outbound[j].exc = NoExc

-----------------------------------------------------------------------------
(* the blueprint resource: get, create, update and remove behind their hooks *)

MaxCalls == 2

HookKinds == {"absent", "returns", "throws"}
BlueprintNames == {"first", "second"}

HookError(name) == ErrorOf(<<name, " refused">>)
NotFoundError == ErrorOf(<<"Blueprint not found">>)

\* one hook invocation: the hook, the operation name it was given (onError
\* only) and whether it threw
Hooked(hook, arg, threw) == [hook |-> hook, arg |-> arg, threw |-> threw]

\* what a handler body has done so far: hooks invoked, whether the component
\* mutation was issued, the exception in flight, the value returned and the
\* store
Body(seen, issued, exc, returned, st) ==
    [seen |-> seen, issued |-> issued, exc |-> exc, returned |-> returned, store |-> st]

\* if (hooks?.h) await hooks.h(...): the invocations so far and what is thrown
RunHook(kind, hook, seen) ==
    IF kind = "absent" THEN [seen |-> seen, exc |-> NoExc]
    ELSE [seen |-> Append(seen, Hooked(hook, NULL, kind = "throws")),
          exc |-> IF kind = "throws" THEN HookError(hook) ELSE NoExc]

\* catch (error) { if (hooks?.onError) await hooks.onError(ctx, error, op); throw error; }
\* A handler that throws commits nothing: the mutation is one transaction.
Guarded(op, o, hooks, before) ==
    IF o.exc = NoExc THEN o
    ELSE LET rolled == [o EXCEPT !.store = before, !.returned = NotCalled]
         IN  IF hooks.onError = "absent" THEN rolled
             ELSE [rolled EXCEPT
                       !.seen = Append(@, Hooked("onError", op, hooks.onError = "throws")),
                       !.exc = IF hooks.onError = "throws" THEN HookError("onError") ELSE @]

\* hook, then mutation, then the lifecycle hook that follows it
HookThenMutate(st, hooks, kind, hook, mutated, afterHook, returned) ==
    LET h == RunHook(kind, hook, <<>>)
    IN  IF h.exc # NoExc
        THEN Body(h.seen, FALSE, h.exc, NotCalled, st)
        ELSE LET a == RunHook(hooks.after, afterHook, h.seen)
             IN  Body(a.seen, TRUE, a.exc, returned, mutated)

\* the same with the mutation issued before the hook is asked
MutateThenHook(st, hooks, kind, hook, mutated, afterHook, returned) ==
    LET h == RunHook(kind, hook, <<>>)
    IN  IF h.exc # NoExc
        THEN Body(h.seen, TRUE, h.exc, NotCalled, mutated)
        ELSE LET a == RunHook(hooks.after, afterHook, h.seen)
             IN  Body(a.seen, TRUE, a.exc, returned, mutated)

blueprintsGet(st, hooks) ==
    Guarded("get",
            IF ~st.blueprint
            THEN Body(<<>>, FALSE, NoExc, JSNULL, st)
            ELSE LET h == RunHook(hooks.evalRead, "evalRead", <<>>)
                 IN  Body(h.seen, FALSE, h.exc,
                          IF h.exc = NoExc THEN st.name ELSE NotCalled, st),
            hooks, st)

blueprintsCreate(st, hooks, name) ==
    Guarded("create",
            HookThenMutate(st, hooks, hooks.evalWrite, "evalWrite",
                           [st EXCEPT !.blueprint = TRUE, !.name = name],
                           "onInsert", Str(<<"id">>)),
            hooks, st)

blueprintsUpdate(st, hooks, name) ==
    Guarded("update",
            IF ~st.blueprint
            THEN Body(<<>>, FALSE, NotFoundError, NotCalled, st)
            ELSE HookThenMutate(st, hooks, hooks.evalWrite, "evalWrite",
                                [st EXCEPT !.name = name], "onUpdate", Str(<<"id">>)),
            hooks, st)

\* remove that deletes before it asks evalRemove, with nothing rolled back
blueprintsRemoveDeletesFirst(st, hooks) ==
    LET o == MutateThenHook(st, hooks, hooks.evalRemove, "evalRemove",
                            blueprintRemove(st), "onRemove", Bool(TRUE))
    IN  IF ~st.blueprint
        THEN Guarded("remove", Body(<<>>, FALSE, NotFoundError, NotCalled, st), hooks, st)
        ELSE [Guarded("remove", o, hooks, st) EXCEPT !.store = o.store]

blueprintsRemove(st, hooks) ==
    Guarded("remove",
            IF ~st.blueprint
            THEN Body(<<>>, FALSE, NotFoundError, NotCalled, st)
            ELSE HookThenMutate(st, hooks, hooks.evalRemove, "evalRemove",
                                blueprintRemove(st), "onRemove", Bool(TRUE)),
            hooks, st)

InitBlueprints ==
    /\ tiles = <<>>
    /\ variables = EmptyBag
    /\ hasResolver = FALSE
    /\ hasProgress = FALSE
    /\ hasArtifact = FALSE
    /\ variant = "internal"
    /\ IdleRunner
    /\ NoWorkings
    /\ \E r, w, d, a, e \in HookKinds :
           config = [evalRead |-> r, evalWrite |-> w, evalRemove |-> d, after |-> a,
                     onError |-> e]
    /\ store \in {[blueprint |-> FALSE, name |-> UNDEF, execution |-> NoExecution]}
                     \cup {[blueprint |-> TRUE, name |-> Str(<<n>>), execution |-> NoExecution] :
                               n \in BlueprintNames}
    /\ outbound = <<>>
    /\ env = UNDEF
    /\ runs = <<>>
    /\ compiled = NotCalled
    /\ generated = NotCalled
    /\ drafts = <<>>
    /\ pc = "blueprints"

\* one entry of the history per handler call
Handled(op, o) ==
    /\ Len(outbound) < MaxCalls
    /\ store' = o.store
    /\ outbound' = Append(outbound, [op |-> op, seen |-> o.seen, issued |-> o.issued,
                                     exc |-> o.exc, returned |-> o.returned,
                                     before |-> store, after |-> o.store])
    /\ UNCHANGED executionsFrame

BlueprintsGet ==
    /\ pc = "blueprints"
    /\ Handled("get", blueprintsGet(store, config))

BlueprintsCreate ==
    /\ pc = "blueprints"
    /\ ~store.blueprint
    /\ \E n \in BlueprintNames : Handled("create", blueprintsCreate(store, config, Str(<<n>>)))

BlueprintsUpdate ==
    /\ pc = "blueprints"
    /\ \E n \in BlueprintNames : Handled("update", blueprintsUpdate(store, config, Str(<<n>>)))

BlueprintsRemove ==
    /\ pc = "blueprints"
    /\ Handled("remove", blueprintsRemove(store, config))

NextBlueprints ==
    \/ BlueprintsGet
    \/ BlueprintsCreate
    \/ BlueprintsUpdate
    \/ BlueprintsRemove

SpecBlueprints == InitBlueprints /\ [][NextBlueprints]_vars

\* the authorization hook of an operation
GuardOf(op) ==
    CASE op = "get" -> "evalRead"
      [] op = "remove" -> "evalRemove"
      [] OTHER -> "evalWrite"

Refused(c) == \E i \in 1..Len(c.seen) : c.seen[i].hook = GuardOf(c.op) /\ c.seen[i].threw

ErrorReports(c) == {i \in 1..Len(c.seen) : c.seen[i].hook = "onError"}

\* C35 (as stated): when evalWrite or evalRemove throws, the mutation is not
\* issued and the stored blueprint is unchanged, onError is invoked exactly
\* once with the operation name, and the caller gets the hook's error; when
\* evalRead throws, get returns no document.
HooksGuardAsStated ==
    \A k \in 1..Len(outbound) :
        LET c == outbound[k]
        IN  (pc = "blueprints" /\ Refused(c) /\ config.onError # "absent") =>
                /\ ~c.issued
                /\ c.after = c.before
                /\ c.returned = NotCalled
                /\ Cardinality(ErrorReports(c)) = 1
                /\ \A i \in ErrorReports(c) : c.seen[i].arg = c.op
                /\ c.exc = HookError(GuardOf(c.op))

\* C35: when evalWrite or evalRemove throws, the mutation is not issued and
\* the stored blueprint is unchanged; when evalRead throws, get returns no
\* document; onError, when configured, is invoked exactly once with the
\* operation name; the caller gets the hook's error unless onError itself
\* throws, and then gets onError's.
HooksGuard ==
    \A k \in 1..Len(outbound) :
        LET c == outbound[k]
        IN  (pc = "blueprints" /\ Refused(c)) =>
                /\ ~c.issued
                /\ c.after = c.before
                /\ c.returned = NotCalled
                /\ Cardinality(ErrorReports(c)) = (IF config.onError = "absent" THEN 0 ELSE 1)
                /\ \A i \in ErrorReports(c) : c.seen[i].arg = c.op
                /\ c.exc = IF config.onError = "throws" THEN HookError("onError")
                           ELSE HookError(GuardOf(c.op))

\* a remove refused by evalRemove, of a blueprint that is stored, reported to
\* an onError that throws
HooksGuardWitness ==
    /\ pc = "blueprints"
    /\ config.onError = "throws"
    /\ \E k \in 1..Len(outbound) :
           /\ outbound[k].op = "remove"
           /\ outbound[k].before.blueprint
           /\ Refused(outbound[k])

-----------------------------------------------------------------------------
(* the blueprint builder: drafts are closures over a description and three
   arrays (tiles, inputSchema, tags); the arrays live in a heap so that two
   drafts holding the same array see each other's writes to it *)

MaxDrafts == 4

NoDrafts == [arrays |-> <<>>, list |-> <<>>, made |-> <<>>, ids |-> 0]

\* createDraft(name, description, tiles, inputSchema, tags): the closure
createDraft(description, tilesRef, schemaRef, tagsRef) ==
    [description |-> description, tiles |-> tilesRef, inputSchema |-> schemaRef,
     tags |-> tagsRef]

\* the heap with one more array, whose reference is the new length
WithArray(h, arr) == [h EXCEPT !.arrays = Append(@, arr)]

\* the heap with the draft a method returns, and the call that made it
Returned(h, d, method, receiver) ==
    [h EXCEPT !.list = Append(@, d), !.made = Append(@, [method |-> method, from |-> receiver])]

\* tiles.map((t) => t.id === lastTile?.id ? { ...t, connections: { ...t.connections, output: id } } : t)
LinkLast(ts, id) ==
    [i \in 1..Len(ts) |->
        IF ts[i].id = ts[Len(ts)].id THEN [ts[i] EXCEPT !.connections.output = id] ELSE ts[i]]

\* generateTileId(): identifiers that have not been given before
generateTileId(h) == TileIds[h.ids + 1]

NewTile(h, ts, type, parameters) ==
    Tile(generateTileId(h), type, parameters,
         IF Len(ts) > 0 THEN ts[Len(ts)].id ELSE NULL, NULL)

\* addTile that pushes onto the receiver's array and relinks its last tile
\* in place
addTilePushesInPlace(h, r, type, parameters) ==
    LET d  == h.list[r]
        ts == h.arrays[d.tiles]
        id == generateTileId(h)
        h2 == [h EXCEPT !.arrays[d.tiles] = Append(LinkLast(ts, id), NewTile(h, ts, type, parameters)),
                        !.ids = @ + 1]
    IN  Returned(h2, createDraft(d.description, d.tiles, d.inputSchema, d.tags), type, r)

\* addTile that leaves the previous tile's output as it was
addTileNoBackLink(h, r, type, parameters) ==
    LET d  == h.list[r]
        ts == h.arrays[d.tiles]
        h2 == [WithArray(h, Append(ts, NewTile(h, ts, type, parameters))) EXCEPT !.ids = @ + 1]
    IN  Returned(h2, createDraft(d.description, Len(h2.arrays), d.inputSchema, d.tags), type, r)

\* addTile(type, label, parameters) on the draft at r
addTile(h, r, type, parameters) ==
    LET d  == h.list[r]
        ts == h.arrays[d.tiles]
        id == generateTileId(h)
        h2 == [WithArray(h, Append(LinkLast(ts, id), NewTile(h, ts, type, parameters)))
                   EXCEPT !.ids = @ + 1]
    IN  Returned(h2, createDraft(d.description, Len(h2.arrays), d.inputSchema, d.tags), type, r)

\* input(fieldName, fieldType, required, fieldDescription)
draftInput(h, r, field) ==
    LET d  == h.list[r]
        h2 == WithArray(h, Append(h.arrays[d.inputSchema], field))
    IN  Returned(h2, createDraft(d.description, d.tiles, Len(h2.arrays), d.tags), "input", r)

\* describe(desc)
draftDescribe(h, r, desc) ==
    Returned(h, createDraft(desc, h.list[r].tiles, h.list[r].inputSchema, h.list[r].tags),
             "describe", r)

\* tag(...newTags)
draftTag(h, r, newTags) ==
    LET d  == h.list[r]
        h2 == WithArray(h, h.arrays[d.tags] \o newTags)
    IN  Returned(h2, createDraft(d.description, d.tiles, d.inputSchema, Len(h2.arrays)), "tag", r)

\* build()
build(h, r) ==
    LET d == h.list[r]
    IN  [description |-> d.description,
         tiles |-> h.arrays[d.tiles],
         metadata |-> [tags |-> IF Len(h.arrays[d.tags]) > 0 THEN List(h.arrays[d.tags]) ELSE UNDEF,
                       inputSchema |-> h.arrays[d.inputSchema]]]

\* blueprint.create(name): createDraft(name, undefined, [], [], [])
blueprintCreate ==
    Returned([NoDrafts EXCEPT !.arrays = <<<<>>, <<>>, <<>>>>], createDraft(UNDEF, 1, 2, 3),
             "create", 0)

\* the parameters the nine tile-adding methods hand to addTile
BuilderCalls == {
    [type |-> "NAVIGATE", parameters |-> [url |-> Str(<<"u">>), waitUntil |-> Str(<<"load">>),
                                          timeout |-> Num(30000)]],
    [type |-> "AUTH", parameters |-> EmptyBag],
    [type |-> "TYPE", parameters |-> [instruction |-> Str(<<"f">>), variable |-> Str(sV)]],
    [type |-> "CLICK", parameters |-> [instruction |-> Str(<<"b">>)]],
    [type |-> "SCREENSHOT", parameters |-> [fullPage |-> Bool(FALSE)]],
    [type |-> "EXTRACT", parameters |-> [instruction |-> Str(<<"n">>), outputVariable |-> Str(sV),
                                         schema |-> UNDEF]],
    [type |-> "WAIT", parameters |-> [ms |-> Num(5)]],
    [type |-> "SELECT", parameters |-> [instruction |-> Str(<<"s">>), value |-> Str(<<"o">>)]],
    [type |-> "FORM", parameters |-> [fields |-> List(<<>>)]] }

InitBuilder ==
    /\ tiles = <<>>
    /\ variables = EmptyBag
    /\ hasResolver = FALSE
    /\ hasProgress = FALSE
    /\ hasArtifact = FALSE
    /\ variant = "internal"
    /\ IdleRunner
    /\ NoWorkings
    /\ config = UNDEF
    /\ store = UNDEF
    /\ outbound = <<>>
    /\ env = UNDEF
    /\ runs = <<>>
    /\ compiled = NotCalled
    /\ generated = NotCalled
    /\ drafts = blueprintCreate
    /\ pc = "builder"

builderFrame == <<inputs, sortedTiles, idx, tileResults, outputs, dispatches, raised, calls,
                  progress, artifacts, closeCalls, adapterMade, runResult, escaped, sorted,
                  visited, current, templateParts, interpolated, config, store, outbound, env,
                  runs, compiled, generated, pc>>

Receivers == IF Len(drafts.list) < MaxDrafts THEN 1..Len(drafts.list) ELSE {}

\* navigate, auth, type, click, screenshot, extract, wait, select, form
DraftTile ==
    /\ pc = "builder"
    /\ \E r \in Receivers, c \in BuilderCalls :
           drafts' = addTile(drafts, r, c.type, c.parameters)
    /\ UNCHANGED builderFrame

DraftInput ==
    /\ pc = "builder"
    /\ \E r \in Receivers :
           drafts' = draftInput(drafts, r, [name |-> Str(sV), type |-> Str(<<"string">>),
                                            required |-> Bool(TRUE), description |-> UNDEF])
    /\ UNCHANGED builderFrame

DraftDescribe ==
    /\ pc = "builder"
    /\ \E r \in Receivers : drafts' = draftDescribe(drafts, r, Str(<<"d">>))
    /\ UNCHANGED builderFrame

DraftTag ==
    /\ pc = "builder"
    /\ \E r \in Receivers : drafts' = draftTag(drafts, r, <<Str(<<"g">>)>>)
    /\ UNCHANGED builderFrame

NextBuilder ==
    \/ DraftTile
    \/ DraftInput
    \/ DraftDescribe
    \/ DraftTag

SpecBuilder == InitBuilder /\ [][NextBuilder]_vars

\* C36: every builder method returns a new draft and leaves every draft that
\* exists unchanged: build() on an earlier draft gives the same tiles, input
\* schema and tags before and after a method is called on it or on a draft
\* derived from it.
DraftsImmutable ==
    [][pc = "builder" =>
          /\ Len(drafts'.list) = Len(drafts.list) + 1
          /\ \A r \in 1..Len(drafts.list) : build(drafts', r) = build(drafts, r)]_vars

\* a draft with a tile, from which two further drafts were made
DraftsImmutableWitness ==
    /\ pc = "builder"
    /\ \E r \in 1..Len(drafts.list) :
           /\ Len(build(drafts, r).tiles) > 0
           /\ \E i, j \in 1..Len(drafts.made) :
                  /\ i # j
                  /\ drafts.made[i].from = r /\ drafts.made[j].from = r
                  /\ drafts.made[i].method \notin {"input", "describe", "tag"}

\* exactly one tile has input null, the first; each tile's output is the id
\* of the next and its input the id of the one before; the last output is
\* null
WellFormedChain(ts) ==
    /\ \A i \in 1..Len(ts) :
           /\ ts[i].connections.input = (IF i = 1 THEN NULL ELSE ts[i - 1].id)
           /\ ts[i].connections.output = (IF i = Len(ts) THEN NULL ELSE ts[i + 1].id)
    /\ \A i, j \in 1..Len(ts) : ts[i].id = ts[j].id => i = j

\* the position of an identifier in the order generateTileId gave them out
Issued(id) == CHOOSE n \in 1..Len(TileIds) : TileIds[n] = id

\* C39: the tiles of every draft form one well-formed chain, and sortTiles
\* returns them in the order the builder methods were called.
BuilderChain ==
    pc = "builder" =>
        \A r \in 1..Len(drafts.list) :
            LET ts == build(drafts, r).tiles
            IN  /\ WellFormedChain(ts)
                /\ sortTiles(ts) = ts
                /\ \A i, j \in 1..Len(ts) : i < j => Issued(ts[i].id) < Issued(ts[j].id)

\* a draft of three tiles
BuilderChainWitness ==
    /\ pc = "builder"
    /\ \E r \in 1..Len(drafts.list) : Len(build(drafts, r).tiles) = 3

-----------------------------------------------------------------------------
(* the execution record and the screenshot artifact in the sequence runner *)

\* C37 (as stated): the adapter-factory execute has created and started
\* its record before the adapter is built; whenever it is over, by a return
\* or by an exception a provider call raised, the record was completed with
\* the Run Result it returns.  (A completion that itself fails, and a
\* callback that throws, are left aside.)
RecordCompletedOnEveryPath ==
    (variant = "factory" /\ pc = "done" /\ escaped \notin StoreThrows \cup CallbackThrows)
        => /\ runResult # NoResult
           /\ escaped = NoExc

\* the provider's screenshot calls of the i-th step
ShotsOf(i) == {k \in 1..Len(calls) : calls[k].tile = i /\ calls[k].m = "screenshot"}

\* C40 (as stated): for a completed SCREENSHOT step of a run with an artifact
\* callback, the provider's screenshot is called once, the bytes handed to
\* the callback are those whose size the step result records, and the run
\* ends with a Run Result in which the step is completed whether or not the
\* callback failed.
ArtifactIsTheStepsCapture ==
    \A i \in 1..Len(tileResults) :
        (hasArtifact /\ adapterMade /\ sortedTiles[i].type = "SCREENSHOT"
             /\ tileResults[i].status = "completed" /\ (i < idx \/ pc \in {"finally", "done"}))
            => /\ Cardinality(ShotsOf(i)) = 1
               /\ \A a \in 1..Len(artifacts) :
                      artifacts[a].tileId = sortedTiles[i].id
                          => artifacts[a].data.size = tileResults[i].result.size
               /\ (pc = "done" /\ escaped \in CallbackThrows)
                      => /\ runResult.kind = "run"
                         /\ runResult.tileResults[i].status = "completed"

=============================================================================
